---------------------------- MODULE Spec2Model ----------------------------
(***************************************************************************)
(* A model of the uk-police-api client: URL construction (area_query and   *)
(* the public operations of Client), the transport step, handle_response   *)
(* and the serde decoding of the response schemas.                         *)
(*                                                                         *)
(* Strings are TLA+ strings; Len, \o and SubSeq work on them.  An Option   *)
(* is the record None or Some(v).  A JSON document is a tagged record.     *)
(***************************************************************************)
EXTENDS Integers, Sequences, FiniteSets, TLC

VARIABLES client, calls

vars == <<client, calls>>

(***************************************************************************)
(* Bounds of the model.                                                    *)
(***************************************************************************)
\* the longest polygon (Area::Custom) a caller passes
MaxVertices == 2
\* the longest JSON array a response body carries
MaxItems == 2

(***************************************************************************)
(* Option<T>                                                               *)
(***************************************************************************)
None == [some |-> FALSE]

Some(v) == [some |-> TRUE, v |-> v]

(***************************************************************************)
(* String helpers.                                                         *)
(***************************************************************************)
CharAt(s, i) == SubSeq(s, i, i)

StartsWith(s, p) == Len(s) >= Len(p) /\ SubSeq(s, 1, Len(p)) = p

EndsWith(s, p) == Len(s) >= Len(p) /\ SubSeq(s, Len(s) - Len(p) + 1, Len(s)) = p

CountChar(s, ch) == Cardinality({i \in 1..Len(s) : CharAt(s, i) = ch})

Contains(s, p) == \E i \in 1..(Len(s) - Len(p) + 1) : SubSeq(s, i, i + Len(p) - 1) = p

(***************************************************************************)
(* Display of the numeric types format! is applied to.                     *)
(***************************************************************************)
Digit(d) == CharAt("0123456789", d + 1)

RECURSIVE U64ToString(_)
\* <u64 as Display>::fmt: the decimal digits, most significant first
U64ToString(n) == IF n < 10 THEN Digit(n) ELSE U64ToString(n \div 10) \o Digit(n % 10)

\* An f64 is held as its shortest decimal: a sign, an integer part and the
\* digits after the point ("" when the value is integral), or NaN.
F64(neg, int, frac) == [nan |-> FALSE, neg |-> neg, int |-> int, frac |-> frac]

F64NaN == [nan |-> TRUE, neg |-> FALSE, int |-> 0, frac |-> ""]

\* <f64 as Display>::fmt: no exponent, no trailing zeros, "52" for 52.0
F64ToString(x) ==
    IF x.nan THEN "NaN"
    ELSE (IF x.neg THEN "-" ELSE "") \o U64ToString(x.int)
         \o (IF x.frac = "" THEN "" ELSE "." \o x.frac)

(***************************************************************************)
(* models/crime.rs: Coordinate and Area                                    *)
(***************************************************************************)
Coordinate(lat, lng) == [lat |-> lat, lng |-> lng]

AreaPoint(coord) == [variant |-> "Point", coord |-> coord]

AreaCustom(coords) == [variant |-> "Custom", coords |-> coords]

AreaLocationId(id) == [variant |-> "LocationId", id |-> id]

RECURSIVE Join(_, _)
\* [String]::join(sep)
Join(parts, sep) ==
    IF Len(parts) = 0 THEN ""
    ELSE IF Len(parts) = 1 THEN parts[1]
    ELSE parts[1] \o sep \o Join(Tail(parts), sep)

\* the closure of the map in area_query: |c| format!("{},{}", c.lat, c.lng)
VertexToString(c) == F64ToString(c.lat) \o "," \o F64ToString(c.lng)

\* an encoder that writes the longitude first
area_query_swapped(area) ==
    CASE area.variant = "Point" ->
            "lat=" \o F64ToString(area.coord.lng) \o "&lng=" \o F64ToString(area.coord.lat)
      [] area.variant = "Custom" ->
            "poly=" \o Join([i \in 1..Len(area.coords) |-> VertexToString(area.coords[i])], ":")
      [] area.variant = "LocationId" ->
            "location_id=" \o U64ToString(area.id)

\* an encoder that closes the polygon by repeating its first vertex
area_query_closed(area) ==
    CASE area.variant = "Point" ->
            "lat=" \o F64ToString(area.coord.lat) \o "&lng=" \o F64ToString(area.coord.lng)
      [] area.variant = "Custom" ->
            "poly=" \o Join([i \in 1..Len(area.coords) + (IF Len(area.coords) > 0 THEN 1 ELSE 0) |->
                               VertexToString(area.coords[IF i > Len(area.coords) THEN 1 ELSE i])], ":")
      [] area.variant = "LocationId" ->
            "location_id=" \o U64ToString(area.id)

\* an encoder that leaves out the parameter of a polygon without vertices
area_query_skips_empty(area) ==
    CASE area.variant = "Point" ->
            "lat=" \o F64ToString(area.coord.lat) \o "&lng=" \o F64ToString(area.coord.lng)
      [] area.variant = "Custom" ->
            IF Len(area.coords) = 0 THEN ""
            ELSE "poly=" \o Join([i \in 1..Len(area.coords) |-> VertexToString(area.coords[i])], ":")
      [] area.variant = "LocationId" ->
            "location_id=" \o U64ToString(area.id)

\* Client::area_query
area_query(area) ==
    CASE area.variant = "Point" ->
            "lat=" \o F64ToString(area.coord.lat) \o "&lng=" \o F64ToString(area.coord.lng)
      [] area.variant = "Custom" ->
            "poly=" \o Join([i \in 1..Len(area.coords) |-> VertexToString(area.coords[i])], ":")
      [] area.variant = "LocationId" ->
            "location_id=" \o U64ToString(area.id)


(***************************************************************************)
(* JSON documents (serde_json's data model).                               *)
(***************************************************************************)
JNull == [t |-> "null"]

JBool(b) == [t |-> "bool", b |-> b]

JNum(n) == [t |-> "num", n |-> n]

JStr(s) == [t |-> "str", s |-> s]

JArr(a) == [t |-> "arr", a |-> a]

\* o is a function from the object's keys to their values
JObj(o) == [t |-> "obj", o |-> o]

(***************************************************************************)
(* Result<T, E> of a Deserialize implementation.                           *)
(***************************************************************************)
DeOk(v) == [ok |-> TRUE, v |-> v]

DeErr == [ok |-> FALSE]

(***************************************************************************)
(* The shapes #[derive(Deserialize)] is applied to.                        *)
(***************************************************************************)
TString == [k |-> "String"]

TU64 == [k |-> "u64"]

TBool == [k |-> "bool"]

TOption(of) == [k |-> "Option", of |-> of]

TVec(of) == [k |-> "Vec", of |-> of]

TStruct(fields) == [k |-> "Struct", fields |-> fields]

\* an enum of unit variants; each variant has its rename and its aliases
TEnum(variants) == [k |-> "Enum", variants |-> variants]

\* a variant that also answers to a phrase of another variant
Variant_shared_phrase(tag, rename, alias) ==
    [tag |-> tag, rename |-> rename, alias |-> alias \cup {"Under investigation"}]

Variant(tag, rename, alias) == [tag |-> tag, rename |-> rename, alias |-> alias]

\* a struct field: its Rust name, its JSON key, its type, #[serde(default)]
\* and #[serde(deserialize_with = ...)]
Field(name, ty) ==
    [name |-> name, key |-> name, ty |-> ty, default |-> FALSE, with |-> ""]

FieldRenamed(name, key, ty) ==
    [name |-> name, key |-> key, ty |-> ty, default |-> FALSE, with |-> ""]

FieldDefault(name, ty, with) ==
    [name |-> name, key |-> name, ty |-> ty, default |-> TRUE, with |-> with]

(***************************************************************************)
(* models/stop_and_search.rs: deserialize_outcome                          *)
(***************************************************************************)
\* #[serde(untagged)] enum StringOrBool: the first variant that accepts the
\* value is taken, String before Bool
StringOrBool(j) ==
    IF j.t = "str" THEN DeOk([variant |-> "String", s |-> j.s])
    ELSE IF j.t = "bool" THEN DeOk([variant |-> "Bool", b |-> j.b])
    ELSE DeErr

\* a tri-state rule that maps whatever is no string to absent
deserialize_outcome_lenient(j) ==
    IF j.t = "str" THEN DeOk(Some(j.s)) ELSE DeOk(None)

deserialize_outcome(j) ==
    IF j.t = "null" THEN DeOk(None)
    ELSE LET r == StringOrBool(j)
         IN  IF ~r.ok THEN DeErr
             ELSE IF r.v.variant = "String" THEN DeOk(Some(r.v.s))
             ELSE DeOk(None)

(***************************************************************************)
(* serde: Deserialize for the derived shapes, from a serde_json value.     *)
(***************************************************************************)
\* a lookup that knows the renames only
VariantOf_rename_only(variants, s) ==
    LET hits == {i \in 1..Len(variants) : s = variants[i].rename}
    IN  IF hits = {} THEN DeErr
        ELSE DeOk(variants[CHOOSE i \in hits : \A h \in hits : i <= h].tag)

\* a lookup that falls back to the first variant
VariantOf_or_first(variants, s) ==
    LET hits == {i \in 1..Len(variants) : s = variants[i].rename \/ s \in variants[i].alias}
    IN  IF hits = {} THEN DeOk(variants[1].tag)
        ELSE DeOk(variants[CHOOSE i \in hits : \A h \in hits : i <= h].tag)

\* the variant a string names: the first whose rename or alias equals it
VariantOf(variants, s) ==
    LET hits == {i \in 1..Len(variants) : s = variants[i].rename \/ s \in variants[i].alias}
    IN  IF hits = {} THEN DeErr
        ELSE DeOk(variants[CHOOSE i \in hits : \A h \in hits : i <= h].tag)

\* an encoder that writes a variant by its alias
SerializeVariant_by_alias(variants, tag) ==
    LET i == CHOOSE i \in 1..Len(variants) : variants[i].tag = tag
    IN  JStr(CHOOSE a \in variants[i].alias : TRUE)

\* #[derive(Serialize)] on a unit variant: serialize_unit_variant with the
\* variant's rename
SerializeVariant(variants, tag) ==
    LET i == CHOOSE i \in 1..Len(variants) : variants[i].tag = tag
    IN  JStr(variants[i].rename)

RECURSIVE Serialize(_, _)

\* #[derive(Serialize)], into serde_json's data model
Serialize(ty, v) ==
    CASE ty.k = "String" -> JStr(v)
      [] ty.k = "u64" -> JNum(v)
      [] ty.k = "bool" -> JBool(v)
      [] ty.k = "Option" -> IF v.some THEN Serialize(ty.of, v.v) ELSE JNull
      [] ty.k = "Vec" -> JArr([i \in 1..Len(v) |-> Serialize(ty.of, v[i])])
      [] ty.k = "Enum" -> SerializeVariant(ty.variants, v)
      [] ty.k = "Struct" ->
            LET n  == Len(ty.fields)
                at == [key \in {ty.fields[i].key : i \in 1..n} |->
                         CHOOSE i \in 1..n : ty.fields[i].key = key]
            IN  JObj([key \in DOMAIN at |->
                        Serialize(ty.fields[at[key]].ty, v[ty.fields[at[key]].name])])

RECURSIVE Deserialize(_, _)
RECURSIVE DeserializeField(_, _)
RECURSIVE DeserializeSeqField(_, _, _)

\* Default::default() of the types a field has
DefaultOf(ty) ==
    CASE ty.k = "String" -> ""
      [] ty.k = "u64" -> 0
      [] ty.k = "bool" -> FALSE
      [] ty.k = "Vec" -> <<>>
      [] OTHER -> None

\* a field that takes its type's default when its key is missing, as if every
\* field carried #[serde(default)]
DeserializeField_defaulting(f, o) ==
    IF f.key \in DOMAIN o
    THEN IF f.with = "deserialize_outcome" THEN deserialize_outcome(o[f.key])
         ELSE Deserialize(f.ty, o[f.key])
    ELSE IF f.ty.k \in {"Struct", "Enum"} THEN DeErr
    ELSE DeOk(DefaultOf(f.ty))

\* a field whose key has to be there unless the field has #[serde(default)]
DeserializeField_requires_key(f, o) ==
    IF f.key \in DOMAIN o
    THEN IF f.with = "deserialize_outcome" THEN deserialize_outcome(o[f.key])
         ELSE Deserialize(f.ty, o[f.key])
    ELSE IF f.default THEN DeOk(None)
    ELSE DeErr

\* a field of a struct given as a JSON object
DeserializeField(f, o) ==
    IF f.key \in DOMAIN o
    THEN IF f.with = "deserialize_outcome" THEN deserialize_outcome(o[f.key])
         ELSE Deserialize(f.ty, o[f.key])
    ELSE IF f.default THEN DeOk(None)
    ELSE IF f.with = "" /\ f.ty.k = "Option" THEN DeOk(None)
    ELSE DeErr

\* the i-th field of a struct given as a JSON array
DeserializeSeqField(f, a, i) ==
    IF i <= Len(a)
    THEN IF f.with = "deserialize_outcome" THEN deserialize_outcome(a[i])
         ELSE Deserialize(f.ty, a[i])
    ELSE IF f.default THEN DeOk(None)
    ELSE DeErr

\* a decoder whose structs carry #[serde(deny_unknown_fields)]
Deserialize_deny_unknown_fields(ty, j) ==
    IF /\ ty.k = "Struct"
       /\ j.t = "obj"
       /\ ~(DOMAIN j.o \subseteq {ty.fields[i].key : i \in 1..Len(ty.fields)})
    THEN DeErr ELSE
    CASE ty.k = "String" -> IF j.t = "str" THEN DeOk(j.s) ELSE DeErr
      [] ty.k = "u64" -> IF j.t = "num" /\ j.n >= 0 THEN DeOk(j.n) ELSE DeErr
      [] ty.k = "bool" -> IF j.t = "bool" THEN DeOk(j.b) ELSE DeErr
      [] ty.k = "Option" ->
            IF j.t = "null" THEN DeOk(None)
            ELSE LET r == Deserialize(ty.of, j)
                 IN  IF r.ok THEN DeOk(Some(r.v)) ELSE DeErr
      [] ty.k = "Vec" ->
            IF j.t # "arr" THEN DeErr
            ELSE LET rs == [i \in 1..Len(j.a) |-> Deserialize(ty.of, j.a[i])]
                 IN  IF \A i \in 1..Len(j.a) : rs[i].ok
                     THEN DeOk([i \in 1..Len(j.a) |-> rs[i].v])
                     ELSE DeErr
      [] ty.k = "Enum" ->
            IF j.t = "str" THEN VariantOf(ty.variants, j.s)
            ELSE IF j.t = "obj" /\ Cardinality(DOMAIN j.o) = 1
            THEN LET key == CHOOSE x \in DOMAIN j.o : TRUE
                 IN  IF j.o[key].t = "null" THEN VariantOf(ty.variants, key) ELSE DeErr
            ELSE DeErr
      [] ty.k = "Struct" ->
            LET n  == Len(ty.fields)
                rs == IF j.t = "obj"
                      THEN [i \in 1..n |-> DeserializeField(ty.fields[i], j.o)]
                      ELSE IF j.t = "arr" /\ Len(j.a) <= n
                      THEN [i \in 1..n |-> DeserializeSeqField(ty.fields[i], j.a, i)]
                      ELSE [i \in 1..n |-> DeErr]
            IN  IF \A i \in 1..n : rs[i].ok
                THEN DeOk([name \in {ty.fields[i].name : i \in 1..n} |->
                              rs[CHOOSE i \in 1..n : ty.fields[i].name = name].v])
                ELSE DeErr

Deserialize(ty, j) ==
    CASE ty.k = "String" -> IF j.t = "str" THEN DeOk(j.s) ELSE DeErr
      [] ty.k = "u64" -> IF j.t = "num" /\ j.n >= 0 THEN DeOk(j.n) ELSE DeErr
      [] ty.k = "bool" -> IF j.t = "bool" THEN DeOk(j.b) ELSE DeErr
      [] ty.k = "Option" ->
            IF j.t = "null" THEN DeOk(None)
            ELSE LET r == Deserialize(ty.of, j)
                 IN  IF r.ok THEN DeOk(Some(r.v)) ELSE DeErr
      [] ty.k = "Vec" ->
            IF j.t # "arr" THEN DeErr
            ELSE LET rs == [i \in 1..Len(j.a) |-> Deserialize(ty.of, j.a[i])]
                 IN  IF \A i \in 1..Len(j.a) : rs[i].ok
                     THEN DeOk([i \in 1..Len(j.a) |-> rs[i].v])
                     ELSE DeErr
      [] ty.k = "Enum" ->
            IF j.t = "str" THEN VariantOf(ty.variants, j.s)
            ELSE IF j.t = "obj" /\ Cardinality(DOMAIN j.o) = 1
            THEN LET key == CHOOSE x \in DOMAIN j.o : TRUE
                 IN  IF j.o[key].t = "null" THEN VariantOf(ty.variants, key) ELSE DeErr
            ELSE DeErr
      [] ty.k = "Struct" ->
            LET n  == Len(ty.fields)
                rs == IF j.t = "obj"
                      THEN [i \in 1..n |-> DeserializeField(ty.fields[i], j.o)]
                      ELSE IF j.t = "arr" /\ Len(j.a) <= n
                      THEN [i \in 1..n |-> DeserializeSeqField(ty.fields[i], j.a, i)]
                      ELSE [i \in 1..n |-> DeErr]
            IN  IF \A i \in 1..n : rs[i].ok
                THEN DeOk([name \in {ty.fields[i].name : i \in 1..n} |->
                              rs[CHOOSE i \in 1..n : ty.fields[i].name = name].v])
                ELSE DeErr


(***************************************************************************)
(* models/crime.rs                                                         *)
(***************************************************************************)

CrimeCategory ==
    TStruct(<<
        Field("url", TString),
        Field("name", TString)
    >>)

CrimeLastUpdated ==
    TStruct(<<
        Field("date", TString)
    >>)

Street ==
    TStruct(<<
        Field("id", TU64),
        Field("name", TString)
    >>)

Location ==
    TStruct(<<
        Field("latitude", TString),
        Field("street", Street),
        Field("longitude", TString)
    >>)

OutcomeCategory ==
    TEnum(<<
        Variant("AwaitingCourtResult", "awaiting-court-result",
                {"Awaiting court outcome"}),
        Variant("CourtResultUnavailable", "court-result-unavailable",
                {"Court result unavailable"}),
        Variant("UnableToProceed", "unable-to-proceed",
                {"Court case unable to proceed"}),
        Variant("LocalResolution", "local-resolution",
                {"Local resolution"}),
        Variant("NoFurtherAction", "no-further-action",
                {"Investigation complete; no suspect identified"}),
        Variant("DeprivedOfProperty", "deprived-of-property",
                {"Offender deprived of property"}),
        Variant("Fined", "fined",
                {"Offender fined"}),
        Variant("AbsoluteDischarge", "absolute-discharge",
                {"Offender given absolute discharge"}),
        Variant("Cautioned", "cautioned",
                {"Offender given a caution"}),
        Variant("DrugsPossessionWarning", "drugs-possession-warning",
                {"Offender given a drugs possession warning"}),
        Variant("PenaltyNoticeIssued", "penalty-notice-issued",
                {"Offender given a penalty notice"}),
        Variant("CommunityPenalty", "community-penalty",
                {"Offender given community sentence"}),
        Variant("ConditionalDischarge", "conditional-discharge",
                {"Offender given conditional discharge"}),
        Variant("SuspendedSentence", "suspended-sentence",
                {"Offender given suspended prison sentence"}),
        Variant("Imprisoned", "imprisoned",
                {"Offender sent to prison"}),
        Variant("OtherCourtDisposal", "other-court-disposal",
                {"Offender otherwise dealt with"}),
        Variant("Compensation", "compensation",
                {"Offender ordered to pay compensation"}),
        Variant("SentencedInAnotherCase", "sentenced-in-another-case",
                {"Suspect charged as part of another case"}),
        Variant("Charged", "charged",
                {"Suspect charged"}),
        Variant("NotGuilty", "not-guilty",
                {"Defendant found not guilty"}),
        Variant("SentToCrownCourt", "sent-to-crown-court",
                {"Defendant sent to Crown Court"}),
        Variant("UnableToProsecute", "unable-to-prosecute",
                {"Unable to prosecute suspect"}),
        Variant("FormalActionNotInPublicInterest", "formal-action-not-in-public-interest",
                {"Formal action is not in the public interest"}),
        Variant("ActionTakenByAnotherOrganisation", "action-taken-by-another-organisation",
                {"Action to be taken by another organisation"}),
        Variant("FurtherInvestigationNotInPublicInterest", "further-investigation-not-in-public-interest",
                {"Further investigation is not in the public interest"}),
        Variant("FurtherActionNotInPublicInterest", "further-action-not-in-public-interest",
                {"Further action is not in the public interest"}),
        Variant("UnderInvestigation", "under-investigation",
                {"Under investigation"}),
        Variant("StatusUpdateUnavailable", "status-update-unavailable",
                {"Status update unavailable"})
    >>)

OutcomeStatus ==
    TStruct(<<
        Field("category", OutcomeCategory),
        Field("date", TString)
    >>)

Crime ==
    TStruct(<<
        Field("category", TString),
        Field("persistent_id", TString),
        Field("location_subtype", TString),
        Field("id", TU64),
        Field("location", TOption(Location)),
        Field("context", TString),
        Field("month", TString),
        Field("location_type", TOption(TString)),
        Field("outcome_status", TOption(OutcomeStatus))
    >>)

OutcomeDetail ==
    TStruct(<<
        Field("code", OutcomeCategory),
        Field("name", TString)
    >>)

Outcome ==
    TStruct(<<
        Field("category", OutcomeDetail),
        Field("date", TString),
        Field("person_id", TOption(TString)),
        Field("crime", Crime)
    >>)

CrimeOutcome ==
    TStruct(<<
        Field("category", OutcomeDetail),
        Field("date", TString),
        Field("person_id", TOption(TString))
    >>)

CrimeOutcomes ==
    TStruct(<<
        Field("crime", Crime),
        Field("outcomes", TVec(CrimeOutcome))
    >>)


(***************************************************************************)
(* models/force.rs                                                         *)
(***************************************************************************)

Force ==
    TStruct(<<
        Field("id", TString),
        Field("name", TString)
    >>)

EngagementMethod ==
    TStruct(<<
        FieldRenamed("kind", "type", TString),
        Field("title", TOption(TString)),
        Field("description", TOption(TString)),
        Field("url", TOption(TString))
    >>)

ForceDetail ==
    TStruct(<<
        Field("id", TString),
        Field("name", TString),
        Field("description", TOption(TString)),
        Field("url", TOption(TString)),
        Field("telephone", TOption(TString)),
        Field("engagement_methods", TVec(EngagementMethod))
    >>)

ContactDetails ==
    TStruct(<<
        Field("email", TOption(TString)),
        Field("telephone", TOption(TString)),
        Field("mobile", TOption(TString)),
        Field("fax", TOption(TString)),
        Field("web", TOption(TString)),
        Field("address", TOption(TString)),
        Field("facebook", TOption(TString)),
        Field("twitter", TOption(TString)),
        Field("youtube", TOption(TString)),
        Field("myspace", TOption(TString)),
        Field("bebo", TOption(TString)),
        Field("flickr", TOption(TString)),
        FieldRenamed("google_plus", "google-plus", TOption(TString)),
        Field("forum", TOption(TString)),
        FieldRenamed("e_messaging", "e-messaging", TOption(TString)),
        Field("blog", TOption(TString)),
        Field("rss", TOption(TString))
    >>)

SeniorOfficer ==
    TStruct(<<
        Field("name", TString),
        Field("rank", TString),
        Field("bio", TOption(TString)),
        Field("contact_details", ContactDetails)
    >>)


(***************************************************************************)
(* models/neighbourhood.rs                                                 *)
(***************************************************************************)

Neighbourhood ==
    TStruct(<<
        Field("id", TString),
        Field("name", TString)
    >>)

LatLng ==
    TStruct(<<
        Field("latitude", TString),
        Field("longitude", TString)
    >>)

Link ==
    TStruct(<<
        Field("url", TOption(TString)),
        Field("title", TOption(TString)),
        Field("description", TOption(TString))
    >>)

NeighbourhoodLocation ==
    TStruct(<<
        Field("name", TOption(TString)),
        Field("latitude", TOption(TString)),
        Field("longitude", TOption(TString)),
        Field("postcode", TOption(TString)),
        Field("address", TOption(TString)),
        Field("telephone", TOption(TString)),
        FieldRenamed("kind", "type", TOption(TString)),
        Field("description", TOption(TString))
    >>)

NeighbourhoodDetail ==
    TStruct(<<
        Field("id", TString),
        Field("name", TString),
        Field("description", TOption(TString)),
        Field("population", TOption(TString)),
        Field("url_force", TOption(TString)),
        Field("contact_details", ContactDetails),
        Field("centre", LatLng),
        Field("links", TVec(Link)),
        Field("locations", TVec(NeighbourhoodLocation))
    >>)

NeighbourhoodEvent ==
    TStruct(<<
        Field("title", TOption(TString)),
        Field("description", TOption(TString)),
        Field("address", TOption(TString)),
        FieldRenamed("kind", "type", TOption(TString)),
        Field("start_date", TOption(TString)),
        Field("end_date", TOption(TString)),
        Field("contact_details", TOption(ContactDetails))
    >>)

NeighbourhoodPriority ==
    TStruct(<<
        Field("issue", TOption(TString)),
        FieldRenamed("issue_date", "issue-date", TOption(TString)),
        Field("action", TOption(TString)),
        FieldRenamed("action_date", "action-date", TOption(TString))
    >>)

LocateNeighbourhoodResult ==
    TStruct(<<
        Field("force", TString),
        Field("neighbourhood", TString)
    >>)


(***************************************************************************)
(* models/stop_and_search.rs                                               *)
(***************************************************************************)

\* the enum without its #[serde(rename)] attributes: the variants' own names
StopAndSearchType_by_name ==
    TEnum(<<
        Variant("Person", "Person", {}),
        Variant("Vehicle", "Vehicle", {}),
        Variant("PersonAndVehicle", "PersonAndVehicle", {})
    >>)

StopAndSearchType ==
    TEnum(<<
        Variant("Person", "Person search", {}),
        Variant("Vehicle", "Vehicle search", {}),
        Variant("PersonAndVehicle", "Person and Vehicle search", {})
    >>)

OutcomeObject ==
    TStruct(<<
        Field("id", TOption(TString)),
        Field("name", TOption(TString))
    >>)

StopAndSearch ==
    TStruct(<<
        FieldRenamed("kind", "type", TOption(StopAndSearchType)),
        Field("involved_person", TOption(TBool)),
        Field("datetime", TOption(TString)),
        Field("operation", TOption(TBool)),
        Field("operation_name", TOption(TString)),
        Field("location", TOption(Location)),
        Field("gender", TOption(TString)),
        Field("age_range", TOption(TString)),
        Field("self_defined_ethnicity", TOption(TString)),
        Field("officer_defined_ethnicity", TOption(TString)),
        Field("legislation", TOption(TString)),
        Field("object_of_search", TOption(TString)),
        FieldDefault("outcome", TOption(TString), "deserialize_outcome"),
        Field("outcome_linked_to_object_of_search", TOption(TBool)),
        Field("removal_of_more_than_outer_clothing", TOption(TBool)),
        FieldDefault("outcome_object", TOption(OutcomeObject), "")
    >>)


(***************************************************************************)
(* error.rs: Error, and the Result an operation returns.                   *)
(***************************************************************************)
\* Error::Http(#[from] reqwest::Error); kind is the reqwest error's kind:
\* "Request" from send(), "Body" and "Decode" from Response::json()
ErrorHttp(kind) == [variant |-> "Http", kind |-> kind]

\* Error::Api { status, body }
ErrorApi(status, body) == [variant |-> "Api", status |-> status, body |-> body]

Ok(value) == [variant |-> "Ok", value |-> value]

(***************************************************************************)
(* The transport (reqwest), as far as the client sees it.                  *)
(***************************************************************************)
\* the text of a body: text that is no JSON document, or a JSON document
RawText(s) == [json |-> FALSE, s |-> s]

JsonText(j) == [json |-> TRUE, j |-> j]

\* a response: its status, the body the upstream sent and whether the body
\* can be read to its end
Response(status, sent, readable) ==
    [status |-> status, sent |-> sent, readable |-> readable]

\* a success test that lets redirects through
is_success_below_400(status) == 200 <= status /\ status <= 399

\* a success test that knows 200 only
is_success_ok_only(status) == status = 200

\* StatusCode::is_success
is_success(status) == 200 <= status /\ status <= 299

\* Response::text().await: the body as text, or an error
text(response) ==
    IF response.readable THEN DeOk(response.sent) ELSE DeErr

\* Result<String, _>::unwrap_or_default
unwrap_or_default(r) == IF r.ok THEN r.v ELSE RawText("")

\* a body reader that leaves out the elements of an array that do not decode
json_skipping_bad_elements(ty, response) ==
    IF ~response.readable THEN [decoded |-> FALSE, result |-> ErrorHttp("Body")]
    ELSE IF ~response.sent.json THEN [decoded |-> TRUE, result |-> ErrorHttp("Decode")]
    ELSE IF ty.k = "Vec" /\ response.sent.j.t = "arr"
    THEN LET a  == response.sent.j.a
             rs == [i \in 1..Len(a) |-> Deserialize(ty.of, a[i])]
             Decoded(r) == r.ok
             kept == SelectSeq(rs, Decoded)
         IN  [decoded |-> TRUE, result |-> Ok([i \in 1..Len(kept) |-> kept[i].v])]
    ELSE LET r == Deserialize(ty, response.sent.j)
         IN  [decoded |-> TRUE,
              result |-> IF r.ok THEN Ok(r.v) ELSE ErrorHttp("Decode")]

\* a body reader that gives a list back to front
json_reversing(ty, response) ==
    IF ~response.readable THEN [decoded |-> FALSE, result |-> ErrorHttp("Body")]
    ELSE IF ~response.sent.json THEN [decoded |-> TRUE, result |-> ErrorHttp("Decode")]
    ELSE LET r == Deserialize(ty, response.sent.j)
         IN  [decoded |-> TRUE,
              result |-> IF ~r.ok THEN ErrorHttp("Decode")
                         ELSE IF ty.k = "Vec"
                         THEN Ok([i \in 1..Len(r.v) |-> r.v[Len(r.v) + 1 - i]])
                         ELSE Ok(r.v)]

\* Response::json::<T>().await: reads the whole body, then serde_json::from_slice
json(ty, response) ==
    IF ~response.readable THEN [decoded |-> FALSE, result |-> ErrorHttp("Body")]
    ELSE IF ~response.sent.json THEN [decoded |-> TRUE, result |-> ErrorHttp("Decode")]
    ELSE LET r == Deserialize(ty, response.sent.j)
         IN  [decoded |-> TRUE,
              result |-> IF r.ok THEN Ok(r.v) ELSE ErrorHttp("Decode")]

(***************************************************************************)
(* client.rs                                                               *)
(***************************************************************************)
BASE_URL == "https://data.police.uk/api"

\* handle_response with text().await? in place of unwrap_or_default
handle_response_propagating(ty, response) ==
    IF ~is_success(response.status)
    THEN [decoded |-> FALSE,
          result |-> IF text(response).ok
                     THEN ErrorApi(response.status, text(response).v)
                     ELSE ErrorHttp("Body")]
    ELSE json(ty, response)

\* Client::handle_response; decoded tells whether the body reached the decoder
handle_response(ty, response) ==
    IF ~is_success(response.status)
    THEN [decoded |-> FALSE,
          result |-> ErrorApi(response.status, unwrap_or_default(text(response)))]
    ELSE json(ty, response)

\* the transport handles a caller may pass to from_http_client
HttpClients == {"default", "custom"}

\* Client::new
new == [http |-> "default", base_url |-> BASE_URL]

\* a constructor that takes the host from the transport handle it is given
from_http_client_own_host(http) ==
    [http |-> http,
     base_url |-> IF http = "default" THEN BASE_URL ELSE "http://localhost:8080"]

\* Client::from_http_client
from_http_client(http) == [http |-> http, base_url |-> BASE_URL]

\* the T of each operation's Result<T, Error>
ResponseType(op) ==
    CASE op = "forces" -> TVec(Force)
      [] op = "force" -> ForceDetail
      [] op = "crime_categories" -> TVec(CrimeCategory)
      [] op = "street_level_crimes" -> TVec(Crime)
      [] op = "street_level_outcomes" -> TVec(Outcome)
      [] op = "crime_last_updated" -> CrimeLastUpdated
      [] op = "senior_officers" -> TVec(SeniorOfficer)
      [] op = "crimes_at_location" -> TVec(Crime)
      [] op = "crimes_no_location" -> TVec(Crime)
      [] op = "outcomes_for_crime" -> CrimeOutcomes
      [] op = "neighbourhoods" -> TVec(Neighbourhood)
      [] op = "neighbourhood" -> NeighbourhoodDetail
      [] op = "neighbourhood_boundary" -> TVec(LatLng)
      [] op = "neighbourhood_team" -> TVec(SeniorOfficer)
      [] op = "neighbourhood_events" -> TVec(NeighbourhoodEvent)
      [] op = "neighbourhood_priorities" -> TVec(NeighbourhoodPriority)
      [] op = "locate_neighbourhood" -> LocateNeighbourhoodResult
      [] op = "stops_street" -> TVec(StopAndSearch)
      [] op = "stops_at_location" -> TVec(StopAndSearch)
      [] op = "stops_no_location" -> TVec(StopAndSearch)
      [] op = "stops_force" -> TVec(StopAndSearch)

\* a date that is always appended with '&'
PushDate_ampersand(url, sep, date) ==
    IF date.some THEN url \o "&date=" \o date.v ELSE url

\* if let Some(date) = date { url.push_str(&format!("{sep}date={date}")) }
PushDate(url, sep, date) ==
    IF date.some THEN url \o sep \o "date=" \o date.v ELSE url

\* the slot of a call that has not been made
Idle ==
    [pc |-> "idle", op |-> "", args |-> <<>>, url |-> "", method |-> "",
     requests |-> 0, response |-> None, decodes |-> 0, result |-> None]

\* a client that numbers its requests: every request after the first carries
\* the count of the requests made before it
Send_counting(c, op, args, url) ==
    LET before == Cardinality({d \in DOMAIN calls : calls[d].requests > 0})
    IN  [calls EXCEPT ![c] =
            [@ EXCEPT !.pc = "send", !.op = op, !.args = args,
                      !.url = IF before = 0 THEN url ELSE url \o "#" \o U64ToString(before),
                      !.method = "GET", !.requests = @ + 1]]

\* self.http.get(&url).send(): the operation op, called with args, has built
\* url and waits for the transport
Send(c, op, args, url) ==
    [calls EXCEPT ![c] =
        [@ EXCEPT !.pc = "send", !.op = op, !.args = args, !.url = url,
                  !.method = "GET", !.requests = @ + 1]]

(***************************************************************************)
(* The public operations of Client, up to the request being issued.        *)
(***************************************************************************)

forces(c) ==
    /\ calls[c].pc = "idle"
    /\ calls' = Send(c, "forces", <<>>,
                    client.base_url \o "/forces")
    /\ UNCHANGED client

\* force with a check of its argument before the request is built
force_validated(c, id) ==
    /\ calls[c].pc = "idle"
    /\ calls' = IF id = ""
                THEN [calls EXCEPT ![c] =
                        [@ EXCEPT !.pc = "done", !.op = "force", !.args = [id |-> id],
                                  !.result = Some(ErrorHttp("builder"))]]
                ELSE Send(c, "force", [id |-> id], client.base_url \o "/forces/" \o id)
    /\ UNCHANGED client

force(c, id) ==
    /\ calls[c].pc = "idle"
    /\ calls' = Send(c, "force", [id |-> id],
                    client.base_url \o "/forces/" \o id)
    /\ UNCHANGED client

crime_categories(c, date) ==
    /\ calls[c].pc = "idle"
    /\ calls' = Send(c, "crime_categories", [date |-> date],
                    PushDate(client.base_url \o "/crime-categories",
                             "?", date))
    /\ UNCHANGED client

\* street_level_crimes that takes a point or a polygon only, as its
\* documentation says
street_level_crimes_point_or_polygon(c, category, area, date) ==
    /\ calls[c].pc = "idle"
    /\ calls' =
          IF area.variant = "LocationId"
          THEN [calls EXCEPT ![c] =
                  [@ EXCEPT !.pc = "done", !.op = "street_level_crimes",
                            !.args = [category |-> category, area |-> area, date |-> date],
                            !.result = Some(ErrorHttp("builder"))]]
          ELSE Send(c, "street_level_crimes", [category |-> category, area |-> area, date |-> date],
                    PushDate(client.base_url \o "/crimes-street/" \o category \o "?" \o area_query(area),
                             "&", date))
    /\ UNCHANGED client

street_level_crimes(c, category, area, date) ==
    /\ calls[c].pc = "idle"
    /\ calls' = Send(c, "street_level_crimes", [category |-> category, area |-> area, date |-> date],
                    PushDate(client.base_url \o "/crimes-street/" \o category \o "?" \o area_query(area),
                             "&", date))
    /\ UNCHANGED client

street_level_outcomes(c, area, date) ==
    /\ calls[c].pc = "idle"
    /\ calls' = Send(c, "street_level_outcomes", [area |-> area, date |-> date],
                    PushDate(client.base_url \o "/outcomes-at-location?" \o area_query(area),
                             "&", date))
    /\ UNCHANGED client

crime_last_updated(c) ==
    /\ calls[c].pc = "idle"
    /\ calls' = Send(c, "crime_last_updated", <<>>,
                    client.base_url \o "/crime-last-updated")
    /\ UNCHANGED client

senior_officers(c, force_id) ==
    /\ calls[c].pc = "idle"
    /\ calls' = Send(c, "senior_officers", [force_id |-> force_id],
                    client.base_url \o "/forces/" \o force_id \o "/people")
    /\ UNCHANGED client

crimes_at_location(c, location_id, date) ==
    /\ calls[c].pc = "idle"
    /\ calls' = Send(c, "crimes_at_location", [location_id |-> location_id, date |-> date],
                    PushDate(client.base_url \o "/crimes-at-location?location_id=" \o U64ToString(location_id),
                             "&", date))
    /\ UNCHANGED client

crimes_no_location(c, category, force_arg, date) ==
    /\ calls[c].pc = "idle"
    /\ calls' = Send(c, "crimes_no_location", [category |-> category, force |-> force_arg, date |-> date],
                    PushDate(client.base_url \o "/crimes-no-location?category=" \o category \o "&force=" \o force_arg,
                             "&", date))
    /\ UNCHANGED client

outcomes_for_crime(c, persistent_id) ==
    /\ calls[c].pc = "idle"
    /\ calls' = Send(c, "outcomes_for_crime", [persistent_id |-> persistent_id],
                    client.base_url \o "/outcomes-for-crime/" \o persistent_id)
    /\ UNCHANGED client

\* neighbourhoods under the path of the forces
neighbourhoods_under_forces(c, force_id) ==
    /\ calls[c].pc = "idle"
    /\ calls' = Send(c, "neighbourhoods", [force_id |-> force_id],
                    client.base_url \o "/forces/" \o force_id)
    /\ UNCHANGED client

neighbourhoods(c, force_id) ==
    /\ calls[c].pc = "idle"
    /\ calls' = Send(c, "neighbourhoods", [force_id |-> force_id],
                    client.base_url \o "/" \o force_id \o "/neighbourhoods")
    /\ UNCHANGED client

neighbourhood(c, force_id, neighbourhood_id) ==
    /\ calls[c].pc = "idle"
    /\ calls' = Send(c, "neighbourhood", [force_id |-> force_id, neighbourhood_id |-> neighbourhood_id],
                    client.base_url \o "/" \o force_id \o "/" \o neighbourhood_id)
    /\ UNCHANGED client

neighbourhood_boundary(c, force_id, neighbourhood_id) ==
    /\ calls[c].pc = "idle"
    /\ calls' = Send(c, "neighbourhood_boundary", [force_id |-> force_id, neighbourhood_id |-> neighbourhood_id],
                    client.base_url \o "/" \o force_id \o "/" \o neighbourhood_id \o "/boundary")
    /\ UNCHANGED client

neighbourhood_team(c, force_id, neighbourhood_id) ==
    /\ calls[c].pc = "idle"
    /\ calls' = Send(c, "neighbourhood_team", [force_id |-> force_id, neighbourhood_id |-> neighbourhood_id],
                    client.base_url \o "/" \o force_id \o "/" \o neighbourhood_id \o "/people")
    /\ UNCHANGED client

neighbourhood_events(c, force_id, neighbourhood_id) ==
    /\ calls[c].pc = "idle"
    /\ calls' = Send(c, "neighbourhood_events", [force_id |-> force_id, neighbourhood_id |-> neighbourhood_id],
                    client.base_url \o "/" \o force_id \o "/" \o neighbourhood_id \o "/events")
    /\ UNCHANGED client

neighbourhood_priorities(c, force_id, neighbourhood_id) ==
    /\ calls[c].pc = "idle"
    /\ calls' = Send(c, "neighbourhood_priorities", [force_id |-> force_id, neighbourhood_id |-> neighbourhood_id],
                    client.base_url \o "/" \o force_id \o "/" \o neighbourhood_id \o "/priorities")
    /\ UNCHANGED client

locate_neighbourhood(c, lat, lng) ==
    /\ calls[c].pc = "idle"
    /\ calls' = Send(c, "locate_neighbourhood", [lat |-> lat, lng |-> lng],
                    client.base_url \o "/locate-neighbourhood?q=" \o F64ToString(lat) \o "," \o F64ToString(lng))
    /\ UNCHANGED client

stops_street(c, area, date) ==
    /\ calls[c].pc = "idle"
    /\ calls' = Send(c, "stops_street", [area |-> area, date |-> date],
                    PushDate(client.base_url \o "/stops-street?" \o area_query(area),
                             "&", date))
    /\ UNCHANGED client

stops_at_location(c, location_id, date) ==
    /\ calls[c].pc = "idle"
    /\ calls' = Send(c, "stops_at_location", [location_id |-> location_id, date |-> date],
                    PushDate(client.base_url \o "/stops-at-location?location_id=" \o U64ToString(location_id),
                             "&", date))
    /\ UNCHANGED client

stops_no_location(c, force_arg, date) ==
    /\ calls[c].pc = "idle"
    /\ calls' = Send(c, "stops_no_location", [force |-> force_arg, date |-> date],
                    PushDate(client.base_url \o "/stops-no-location?force=" \o force_arg,
                             "&", date))
    /\ UNCHANGED client

\* an entry point that is a second name of stops_no_location
stops_force_same_endpoint(c, force_arg, date) ==
    /\ calls[c].pc = "idle"
    /\ calls' = Send(c, "stops_no_location", [force |-> force_arg, date |-> date],
                    PushDate(client.base_url \o "/stops-no-location?force=" \o force_arg,
                             "&", date))
    /\ UNCHANGED client

stops_force(c, force_arg, date) ==
    /\ calls[c].pc = "idle"
    /\ calls' = Send(c, "stops_force", [force |-> force_arg, date |-> date],
                    PushDate(client.base_url \o "/stops-force?force=" \o force_arg,
                             "&", date))
    /\ UNCHANGED client

(***************************************************************************)
(* The inputs: what callers pass and what the upstream answers.            *)
(***************************************************************************)
SeqsUpTo(S, n) == UNION {[1..k -> S] : k \in 0..n}

CallIds == {1}

\* force ids, neighbourhood ids, category slugs, persistent ids
Tokens == {"", "met", "NC04", " A?b "}

Dates == {None, Some("2024-01")}

LocationIds == {0, 1737432}

Coordinates ==
    {Coordinate(F64(FALSE, 52, "629729"), F64(TRUE, 1, "131592")),
     Coordinate(F64(FALSE, 52, "13"), F64(FALSE, 0, "478"))}

Points == Coordinates \cup {Coordinate(F64NaN, F64(FALSE, 7, ""))}

Polygons == SeqsUpTo(Coordinates, MaxVertices)

Areas ==
    {AreaPoint(p) : p \in Points}
        \cup {AreaCustom(p) : p \in Polygons}
        \cup {AreaLocationId(id) : id \in LocationIds}

Statuses == {199, 200, 201, 204, 299, 300, 304, 404, 429, 500}

\* a JSON object with one key set, or removed
SetKey(j, key, value) == JObj((key :> value) @@ j.o)

DelKey(j, key) == JObj([x \in DOMAIN j.o \ {key} |-> j.o[x]])

RECURSIVE Edit(_, _, _)
\* the document j with the value at the path p set to e.v, or with the key at
\* the path p removed when e is None; a path is a sequence of keys, and "#"
\* stands for the first element of an array
Edit(j, p, e) ==
    IF p[1] = "#" THEN JArr([j.a EXCEPT ![1] = Edit(@, Tail(p), e)])
    ELSE IF Len(p) = 1 THEN (IF e.some THEN SetKey(j, p[1], e.v) ELSE DelKey(j, p[1]))
    ELSE SetKey(j, p[1], Edit(j.o[p[1]], Tail(p), e))

RECURSIVE SampleJson(_)
\* a document of type ty with every key present and every array of one element
SampleJson(ty) ==
    CASE ty.k = "String" -> JStr("x")
      [] ty.k = "u64" -> JNum(116208998)
      [] ty.k = "bool" -> JBool(TRUE)
      [] ty.k = "Option" -> SampleJson(ty.of)
      [] ty.k = "Vec" -> JArr(<<SampleJson(ty.of)>>)
      [] ty.k = "Enum" -> JStr(ty.variants[1].rename)
      [] ty.k = "Struct" ->
            JObj([key \in {ty.fields[i].key : i \in 1..Len(ty.fields)} |->
                    SampleJson(ty.fields[CHOOSE i \in 1..Len(ty.fields) :
                                            ty.fields[i].key = key].ty)])

RECURSIVE Sites(_)
\* the paths to every field of every struct of a document of type ty
Sites(ty) ==
    CASE ty.k = "Struct" ->
            UNION {{<<ty.fields[i].key>>}
                     \cup {<<ty.fields[i].key>> \o p : p \in Sites(ty.fields[i].ty)} :
                   i \in 1..Len(ty.fields)}
      [] ty.k = "Option" -> Sites(ty.of)
      [] ty.k = "Vec" -> {<<"#">> \o p : p \in Sites(ty.of)}
      [] OTHER -> {}

RECURSIVE FieldAt(_, _)
\* the field a path leads to
FieldAt(ty, p) ==
    CASE ty.k = "Option" -> FieldAt(ty.of, p)
      [] ty.k = "Vec" -> FieldAt(ty.of, Tail(p))
      [] ty.k = "Struct" ->
            LET f == ty.fields[CHOOSE i \in 1..Len(ty.fields) : ty.fields[i].key = p[1]]
            IN  IF Len(p) = 1 THEN f ELSE FieldAt(f.ty, Tail(p))

\* the paths to the fields of type Option<_>, and to the others
OptionalSites(ty) == {p \in Sites(ty) : FieldAt(ty, p).ty.k = "Option"}

RequiredSites(ty) == {p \in Sites(ty) : FieldAt(ty, p).ty.k # "Option"}

\* the full document with one optional key null, or left out
OptionalDocuments(op) ==
    LET ty == ResponseType(op)
    IN  {Edit(SampleJson(ty), p, e) : p \in OptionalSites(ty), e \in {Some(JNull), None}}

\* a JSON object without keys
JEmptyObj == JObj([key \in {} |-> JNull])

\* a struct written as the JSON array of its fields' values, in their order
ArrayForm(ty) ==
    JArr([i \in 1..Len(ty.fields) |-> SampleJson(ty.fields[i].ty)])

\* values of a JSON type other than the one a field of type ty is written in
WrongValues(ty) ==
    CASE ty.k = "String" -> {JNum(0), JBool(FALSE), JArr(<<>>), JEmptyObj}
      [] ty.k = "u64" -> {JStr("0"), JBool(FALSE), JArr(<<>>), JEmptyObj}
      [] ty.k = "bool" -> {JStr("false"), JNum(0), JArr(<<>>), JEmptyObj}
      [] ty.k = "Vec" -> {JStr(""), JNum(0), JBool(FALSE), JEmptyObj}
      [] ty.k = "Struct" -> {JStr(""), JNum(0), JBool(FALSE), JArr(<<>>), ArrayForm(ty)}
      [] ty.k = "Enum" -> {JNum(0), JBool(FALSE), JArr(<<>>), JEmptyObj,
                           JObj([key \in {ty.variants[1].rename} |-> JNull])}

\* the full document with the required key at p left out, null, or of a wrong
\* JSON type
BrokenAt(ty, p) ==
    {Edit(SampleJson(ty), p, e) :
        e \in {None, Some(JNull)} \cup {Some(w) : w \in WrongValues(FieldAt(ty, p).ty)}}

RequiredDocuments(op) ==
    UNION {BrokenAt(ResponseType(op), p) : p \in RequiredSites(ResponseType(op))}

RECURSIVE Objects(_)
\* the paths to every struct of a document of type ty; <<>> is the document
Objects(ty) ==
    CASE ty.k = "Struct" ->
            {<<>>} \cup UNION {{<<ty.fields[i].key>> \o p : p \in Objects(ty.fields[i].ty)} :
                               i \in 1..Len(ty.fields)}
      [] ty.k = "Option" -> Objects(ty.of)
      [] ty.k = "Vec" -> {<<"#">> \o p : p \in Objects(ty.of)}
      [] OTHER -> {}

\* keys no struct declares: a new key, and the Rust name of a renamed field
UnknownKeys == {"extra", "kind"}

\* the full document with an undeclared key in one of its objects
ExtendedDocuments(op) ==
    {Edit(SampleJson(ResponseType(op)), p \o <<key>>, Some(v)) :
        p \in Objects(ResponseType(op)), key \in UnknownKeys,
        v \in {JObj([id |-> JNum(1)])}}

\* the values of StopAndSearch's "outcome" key
OutcomeJsons ==
    {JStr("Arrest"), JStr(""), JBool(FALSE), JBool(TRUE), JNull, JNum(123), JNum(0),
     JArr(<<>>), JArr(<<JStr("Arrest")>>), JObj([id |-> JStr("bu-arrest")])}

\* the three phrases of StopAndSearchType
KindPhrases == {"Person search", "Vehicle search", "Person and Vehicle search"}

\* strings that are none of the three phrases
OtherKindStrings ==
    {"", "Person", "Vehicle", "PersonAndVehicle", "person search", "Person search ",
     "Person and vehicle search", "Person and Vehicle", "Vehicle and Person search"}

StopVariants ==
    {SetKey(SampleJson(StopAndSearch), "outcome", x) : x \in OutcomeJsons}
        \cup {DelKey(SampleJson(StopAndSearch), "outcome")}
        \cup {SetKey(SampleJson(StopAndSearch), "type", JStr(s)) :
                s \in KindPhrases \cup OtherKindStrings}
        \cup {SetKey(SampleJson(StopAndSearch), "type", JNull),
              DelKey(SampleJson(StopAndSearch), "type")}

Slugs == {OutcomeCategory.variants[i].rename : i \in 1..Len(OutcomeCategory.variants)}

Phrases == UNION {OutcomeCategory.variants[i].alias : i \in 1..Len(OutcomeCategory.variants)}

\* strings that are no spelling of a tag
UnknownCategoryStrings ==
    {"made-up-category", "", "Local Resolution", "local resolution", "LOCAL-RESOLUTION",
     " local-resolution", "local-resolution ", "Local resolution\n", "LocalResolution"}

CategoryStrings == Slugs \cup Phrases \cup UnknownCategoryStrings

OutcomeStatusJson(s) == JObj([category |-> JStr(s), date |-> JStr("2024-01")])

OutcomeDetailJson(s) == JObj([code |-> JStr(s), name |-> JStr("x")])

CrimeVariants ==
    {SetKey(SampleJson(Crime), "outcome_status", OutcomeStatusJson(s)) : s \in CategoryStrings}
        \cup {SetKey(SampleJson(Crime), "outcome_status", JNull),
              DelKey(SampleJson(Crime), "outcome_status")}

OutcomeVariants ==
    {SetKey(SampleJson(Outcome), "category", OutcomeDetailJson(s)) : s \in CategoryStrings}

CrimeOutcomeJson(s) == SetKey(SampleJson(CrimeOutcome), "category", OutcomeDetailJson(s))

CrimeOutcomesVariants ==
    {SetKey(SampleJson(CrimeOutcomes), "outcomes",
            JArr(<<CrimeOutcomeJson("charged"), CrimeOutcomeJson(s)>>)) : s \in CategoryStrings}

\* a crime without a location, as /crimes-no-location returns it
CrimeNoLocation ==
    Edit(Edit(SampleJson(Crime), <<"location">>, Some(JNull)),
         <<"location_type">>, Some(JNull))

\* the keys of Crime whose type is no Option
CrimeMandatory == {"category", "persistent_id", "location_subtype", "id", "context", "month"}

CrimeNoLocationVariants ==
    {CrimeNoLocation} \cup {DelKey(CrimeNoLocation, key) : key \in CrimeMandatory}

\* the documents that vary the keys with a decoding rule of their own
Variants(op) ==
    CASE op \in {"stops_street", "stops_at_location", "stops_no_location", "stops_force"} ->
            {JArr(<<x>>) : x \in StopVariants}
      [] op \in {"street_level_crimes", "crimes_at_location", "crimes_no_location"} ->
            {JArr(<<x>>) : x \in CrimeVariants \cup CrimeNoLocationVariants}
      [] op = "street_level_outcomes" -> {JArr(<<x>>) : x \in OutcomeVariants}
      [] op = "outcomes_for_crime" -> CrimeOutcomesVariants
      [] OTHER -> {}

\* the first field of a struct that holds a string, required or optional
StringField(ty) ==
    LET at == {i \in 1..Len(ty.fields) :
                 /\ ty.fields[i].with = ""
                 /\ \/ ty.fields[i].ty.k = "String"
                    \/ ty.fields[i].ty.k = "Option" /\ ty.fields[i].ty.of.k = "String"}
    IN  ty.fields[CHOOSE i \in at : \A k \in at : i <= k]

StringKey(ty) == StringField(ty).key

\* a full element that differs from the sample
OtherElement(ty) == SetKey(SampleJson(ty), StringKey(ty), JStr("y"))

\* elements that do not decode: a required key left out, a value of a wrong
\* type, an unknown category, a malformed outcome
BadElements(op) ==
    LET ty == ResponseType(op).of
    IN  {SetKey(SampleJson(ty), StringKey(ty), JNum(7))}
            \cup (IF StringField(ty).ty.k = "String"
                  THEN {DelKey(SampleJson(ty), StringKey(ty))} ELSE {})
            \cup CASE op \in {"street_level_crimes", "crimes_at_location", "crimes_no_location"} ->
                         {SetKey(SampleJson(Crime), "outcome_status",
                                 OutcomeStatusJson("made-up-category"))}
                    [] op = "street_level_outcomes" ->
                         {SetKey(SampleJson(Outcome), "category",
                                 OutcomeDetailJson("made-up-category"))}
                    [] op \in {"stops_street", "stops_at_location", "stops_no_location",
                               "stops_force"} ->
                         {SetKey(SampleJson(StopAndSearch), "outcome", JNum(123))}
                    [] OTHER -> {}

\* arrays of two elements: a full one beside one that does not decode, and
\* two full ones that differ
MixedDocuments(op) ==
    LET ty == ResponseType(op)
    IN  IF ty.k # "Vec" THEN {}
        ELSE {JArr(<<SampleJson(ty.of), b>>) : b \in BadElements(op)}
                \cup {JArr(<<b, SampleJson(ty.of)>>) : b \in BadElements(op)}
                \cup {JArr(<<SampleJson(ty.of), OtherElement(ty.of)>>),
                      JArr(<<OtherElement(ty.of), SampleJson(ty.of)>>)}

\* the documents every operation is answered with: arrays of up to MaxItems
\* elements, each a full element or null, for an operation that returns a Vec
Documents(op) ==
    LET ty == ResponseType(op)
    IN  IF ty.k = "Vec"
        THEN {JArr(a) : a \in SeqsUpTo({SampleJson(ty.of), JNull}, MaxItems)}
        ELSE {SampleJson(ty), JNull}

\* the bodies sent with every status
CommonBodies(op) ==
    {RawText("Not Found"), RawText(""), JsonText(SampleJson(ResponseType(op)))}

Responses(op) ==
    {Response(status, sent, readable) :
        status \in Statuses, sent \in CommonBodies(op), readable \in BOOLEAN}
        \cup {Response(200, JsonText(j), TRUE) :
                j \in Documents(op) \cup Variants(op) \cup OptionalDocuments(op)
                        \cup RequiredDocuments(op) \cup ExtendedDocuments(op)
                        \cup MixedDocuments(op)}

Operations ==
    {"forces", "force", "crime_categories", "street_level_crimes", "street_level_outcomes",
     "crime_last_updated", "senior_officers", "crimes_at_location", "crimes_no_location",
     "outcomes_for_crime", "neighbourhoods", "neighbourhood", "neighbourhood_boundary",
     "neighbourhood_team", "neighbourhood_events", "neighbourhood_priorities",
     "locate_neighbourhood", "stops_street", "stops_at_location", "stops_no_location",
     "stops_force"}

\* what the upstream may answer to each operation
Upstream == [op \in Operations |-> Responses(op)]

(***************************************************************************)
(* The rest of an operation: send().await? and handle_response.            *)
(***************************************************************************)
\* a transport failure that is answered by sending the request once more
SendFails_retries(c) ==
    /\ calls[c].pc = "send"
    /\ calls' = [calls EXCEPT ![c] =
                    IF @.requests < 2
                    THEN [@ EXCEPT !.requests = @ + 1]
                    ELSE [@ EXCEPT !.pc = "done", !.result = Some(ErrorHttp("Request"))]]
    /\ UNCHANGED client

\* a transport failure reported as an API error with the status 0
SendFails_as_api(c) ==
    /\ calls[c].pc = "send"
    /\ calls' = [calls EXCEPT ![c] =
                    [@ EXCEPT !.pc = "done", !.result = Some(ErrorApi(0, RawText("")))]]
    /\ UNCHANGED client

\* send() fails: `?` returns Error::Http at once
SendFails(c) ==
    /\ calls[c].pc = "send"
    /\ calls' = [calls EXCEPT ![c] =
                    [@ EXCEPT !.pc = "done", !.result = Some(ErrorHttp("Request"))]]
    /\ UNCHANGED client

\* send() yields a response
SendResponds(c) ==
    /\ calls[c].pc = "send"
    /\ \E response \in Upstream[calls[c].op] :
          calls' = [calls EXCEPT ![c] =
                      [@ EXCEPT !.pc = "handle", !.response = Some(response)]]
    /\ UNCHANGED client

\* a client that keeps the last response it received in one place for all of
\* its calls
HandleResponse_shared(c) ==
    /\ calls[c].pc = "handle"
    /\ LET answered == {d \in DOMAIN calls : calls[d].response.some}
           last == CHOOSE d \in answered : \A e \in answered : e <= d
           h == handle_response(ResponseType(calls[c].op), calls[last].response.v)
       IN  calls' = [calls EXCEPT ![c] =
                        [@ EXCEPT !.pc = "done", !.result = Some(h.result),
                                  !.decodes = @ + (IF h.decoded THEN 1 ELSE 0)]]
    /\ UNCHANGED client

\* Self::handle_response(response).await
HandleResponse(c) ==
    /\ calls[c].pc = "handle"
    /\ LET h == handle_response(ResponseType(calls[c].op), calls[c].response.v)
       IN  calls' = [calls EXCEPT ![c] =
                        [@ EXCEPT !.pc = "done", !.result = Some(h.result),
                                  !.decodes = @ + (IF h.decoded THEN 1 ELSE 0)]]
    /\ UNCHANGED client


(***************************************************************************)
(* The specification.                                                      *)
(***************************************************************************)
Init ==
    /\ client \in {new} \cup {from_http_client(http) : http \in HttpClients}
    /\ calls = [c \in CallIds |-> Idle]

Next ==
    \E c \in CallIds :
        \/ forces(c)
        \/ \E id \in Tokens : force(c, id)
        \/ \E date \in Dates : crime_categories(c, date)
        \/ \E category \in Tokens, area \in Areas, date \in Dates :
              street_level_crimes(c, category, area, date)
        \/ \E area \in Areas, date \in Dates : street_level_outcomes(c, area, date)
        \/ crime_last_updated(c)
        \/ \E force_id \in Tokens : senior_officers(c, force_id)
        \/ \E location_id \in LocationIds, date \in Dates :
              crimes_at_location(c, location_id, date)
        \/ \E category \in Tokens, force_arg \in Tokens, date \in Dates :
              crimes_no_location(c, category, force_arg, date)
        \/ \E persistent_id \in Tokens : outcomes_for_crime(c, persistent_id)
        \/ \E force_id \in Tokens : neighbourhoods(c, force_id)
        \/ \E force_id \in Tokens, neighbourhood_id \in Tokens :
              neighbourhood(c, force_id, neighbourhood_id)
        \/ \E force_id \in Tokens, neighbourhood_id \in Tokens :
              neighbourhood_boundary(c, force_id, neighbourhood_id)
        \/ \E force_id \in Tokens, neighbourhood_id \in Tokens :
              neighbourhood_team(c, force_id, neighbourhood_id)
        \/ \E force_id \in Tokens, neighbourhood_id \in Tokens :
              neighbourhood_events(c, force_id, neighbourhood_id)
        \/ \E force_id \in Tokens, neighbourhood_id \in Tokens :
              neighbourhood_priorities(c, force_id, neighbourhood_id)
        \/ \E p \in Points : locate_neighbourhood(c, p.lat, p.lng)
        \/ \E area \in Areas, date \in Dates : stops_street(c, area, date)
        \/ \E location_id \in LocationIds, date \in Dates :
              stops_at_location(c, location_id, date)
        \/ \E force_arg \in Tokens, date \in Dates : stops_no_location(c, force_arg, date)
        \/ \E force_arg \in Tokens, date \in Dates : stops_force(c, force_arg, date)
        \/ SendFails(c)
        \/ SendResponds(c)
        \/ HandleResponse(c)

Spec == Init /\ [][Next]_vars


(***************************************************************************)
(* Properties.                                                             *)
(***************************************************************************)
Done(c) == calls[c].pc = "done"

\* the call was answered by an HTTP response
Answered(c) == Done(c) /\ calls[c].response.some

NonSuccess(status) == status < 200 \/ status > 299

StopsOps == {"stops_street", "stops_at_location", "stops_no_location", "stops_force"}

\* the call was answered 200 with the readable document j
AnsweredWith(c, j) ==
    /\ Answered(c)
    /\ calls[c].response.v.status = 200
    /\ calls[c].response.v.readable
    /\ calls[c].response.v.sent = JsonText(j)

IsDecodeError(c) ==
    /\ calls[c].result.some
    /\ calls[c].result.v.variant = "Http"
    /\ calls[c].result.v.kind = "Decode"

IsOk(c) == calls[c].result.some /\ calls[c].result.v.variant = "Ok"

\* C1 as stated: every response whose status is not 2xx gives an API error
\* with exactly that status and the body the upstream sent, verbatim, and the
\* body never reaches the decoder.
C1_BodyAlwaysVerbatim ==
    \A c \in CallIds :
        (Answered(c) /\ NonSuccess(calls[c].response.v.status)) =>
            /\ calls[c].result.v.variant = "Api"
            /\ calls[c].result.v.status = calls[c].response.v.status
            /\ calls[c].result.v.body = calls[c].response.v.sent
            /\ calls[c].decodes = 0

\* C1 (amended): every response whose status is not 2xx gives an API error
\* with exactly that status, and as its body the body sent, verbatim, when the
\* body can be read and the empty string when it cannot; the body never
\* reaches the decoder, and the result is no value, no decode error and no
\* transport error.
C1_NonSuccessIsApiError ==
    \A c \in CallIds :
        (Answered(c) /\ NonSuccess(calls[c].response.v.status)) =>
            /\ calls[c].result.v.variant = "Api"
            /\ calls[c].result.v.status = calls[c].response.v.status
            /\ calls[c].result.v.body =
                  (IF calls[c].response.v.readable THEN calls[c].response.v.sent
                   ELSE RawText(""))
            /\ calls[c].decodes = 0

\* a 404 whose body is a document of the operation's own schema
C1_Witness ==
    \E c \in CallIds :
        /\ Answered(c)
        /\ calls[c].op = "force"
        /\ calls[c].response.v = Response(404, JsonText(SampleJson(ForceDetail)), TRUE)
        /\ calls[c].result.v = ErrorApi(404, JsonText(SampleJson(ForceDetail)))

\* C2: the three kinds of error are disjoint: a 2xx body that does not
\* decode is reported as a kind other than the kind a transport failure is
\* reported as.
C2_DecodeKindDistinctFromTransportKind ==
    \A c \in CallIds :
        (/\ Answered(c)
         /\ ~NonSuccess(calls[c].response.v.status)
         /\ calls[c].response.v.readable
         /\ ~IsOk(c)) =>
            calls[c].result.v.variant # ErrorHttp("Request").variant

\* the value of the "outcome" key of the one record of a stops answer
StopsSent(x) == JArr(<<SetKey(SampleJson(StopAndSearch), "outcome", x)>>)

StopsSentOf == [x \in OutcomeJsons |-> StopsSent(x)]

\* C3: StopAndSearch.outcome: a string decodes to that string, present;
\* false and null decode to absent; a number fails the decoding.
C3_OutcomeTriState ==
    \A c \in CallIds : \A x \in OutcomeJsons :
        (calls[c].op \in StopsOps /\ AnsweredWith(c, StopsSentOf[x])) =>
            /\ x.t = "str" => IsOk(c) /\ calls[c].result.v.value[1].outcome = Some(x.s)
            /\ x = JBool(FALSE) => IsOk(c) /\ calls[c].result.v.value[1].outcome = None
            /\ x = JNull => IsOk(c) /\ calls[c].result.v.value[1].outcome = None
            /\ x.t = "num" => IsDecodeError(c)

C3_Witness ==
    \E c \in CallIds :
        /\ calls[c].op = "stops_force"
        /\ AnsweredWith(c, StopsSent(JStr("Arrest")))
        /\ IsOk(c)
        /\ calls[c].result.v.value[1].outcome = Some("Arrest")

\* C4: StopAndSearch.outcome: whatever is no string, not false and not null
\* (true, a number, an object, an array) fails the decoding.
C4_OtherOutcomesFail ==
    \A c \in CallIds : \A x \in OutcomeJsons :
        (/\ calls[c].op \in StopsOps
         /\ AnsweredWith(c, StopsSentOf[x])
         /\ x.t # "str" /\ x # JBool(FALSE) /\ x # JNull) =>
            IsDecodeError(c)


CrimeOps == {"street_level_crimes", "crimes_at_location", "crimes_no_location"}

\* the answers that carry the category string s in each of its three places
CrimeSent(s) == JArr(<<SetKey(SampleJson(Crime), "outcome_status", OutcomeStatusJson(s))>>)

OutcomesSent(s) == JArr(<<SetKey(SampleJson(Outcome), "category", OutcomeDetailJson(s))>>)

CrimeOutcomesSent(s) ==
    SetKey(SampleJson(CrimeOutcomes), "outcomes",
           JArr(<<CrimeOutcomeJson("charged"), CrimeOutcomeJson(s)>>))

CrimeSentOf == [s \in CategoryStrings |-> CrimeSent(s)]

OutcomesSentOf == [s \in CategoryStrings |-> OutcomesSent(s)]

CrimeOutcomesSentOf == [s \in CategoryStrings |-> CrimeOutcomesSent(s)]

\* the spellings of the i-th tag: its slug and its phrase
Spellings(i) == {OutcomeCategory.variants[i].rename} \cup OutcomeCategory.variants[i].alias

\* C5: for every OutcomeCategory tag, its slug and its phrase both decode to
\* that tag, as a bare string (Crime.outcome_status.category) and as the code
\* of a {code, name} object (Outcome.category.code, CrimeOutcomes
\* outcomes[i].category.code).
C5_BothSpellingsDecode ==
    \A c \in CallIds :
        Answered(c) =>
            \A i \in 1..Len(OutcomeCategory.variants) : \A s \in Spellings(i) :
                LET tag == OutcomeCategory.variants[i].tag
                IN  /\ (calls[c].op \in CrimeOps /\ AnsweredWith(c, CrimeSentOf[s])) =>
                            /\ IsOk(c)
                            /\ calls[c].result.v.value[1].outcome_status =
                                  Some([category |-> tag, date |-> "2024-01"])
                    /\ (calls[c].op = "street_level_outcomes" /\ AnsweredWith(c, OutcomesSentOf[s])) =>
                            /\ IsOk(c)
                            /\ calls[c].result.v.value[1].category.code = tag
                    /\ (calls[c].op = "outcomes_for_crime" /\ AnsweredWith(c, CrimeOutcomesSentOf[s])) =>
                            /\ IsOk(c)
                            /\ calls[c].result.v.value.outcomes[1].category.code = "Charged"
                            /\ calls[c].result.v.value.outcomes[2].category.code = tag

C5_Witness ==
    \E c \in CallIds :
        /\ calls[c].op = "street_level_outcomes"
        /\ AnsweredWith(c, OutcomesSent("Local resolution"))
        /\ IsOk(c)
        /\ calls[c].result.v.value[1].category.code = "LocalResolution"

\* C6: a category string that equals no slug and no phrase (another word,
\* another letter case, added whitespace) fails the decoding of the whole
\* response, in each of the three places; it is given no tag, and in
\* Crime.outcome_status it is not decoded to absent.
C6_UnknownCategoryFails ==
    \A c \in CallIds :
        Answered(c) =>
            \A s \in CategoryStrings :
                (/\ \A i \in 1..Len(OutcomeCategory.variants) : s \notin Spellings(i)
                 /\ \/ calls[c].op \in CrimeOps /\ AnsweredWith(c, CrimeSentOf[s])
                    \/ calls[c].op = "street_level_outcomes" /\ AnsweredWith(c, OutcomesSentOf[s])
                    \/ calls[c].op = "outcomes_for_crime" /\ AnsweredWith(c, CrimeOutcomesSentOf[s])) =>
                    /\ ~IsOk(c)
                    /\ IsDecodeError(c)

C6_Witness ==
    \E c \in CallIds :
        /\ calls[c].op = "crimes_at_location"
        /\ AnsweredWith(c, CrimeSent("Local Resolution"))
        /\ IsDecodeError(c)

AreaOps == {"street_level_crimes", "street_level_outcomes", "stops_street"}

DateOps ==
    AreaOps \cup {"crime_categories", "crimes_at_location", "crimes_no_location",
                  "stops_at_location", "stops_no_location", "stops_force"}

Issued(c) == calls[c].pc # "idle"

\* the URL of an operation that takes an area, up to and with its '?'
AreaUrlPrefix(c) ==
    CASE calls[c].op = "street_level_crimes" ->
            client.base_url \o "/crimes-street/" \o calls[c].args.category \o "?"
      [] calls[c].op = "street_level_outcomes" -> client.base_url \o "/outcomes-at-location?"
      [] calls[c].op = "stops_street" -> client.base_url \o "/stops-street?"

DateSuffix(sep, date) == IF date.some THEN sep \o "date=" \o date.v ELSE ""

\* what the URL holds between the '?' and the date
AreaFragment(c) ==
    SubSeq(calls[c].url, Len(AreaUrlPrefix(c)) + 1,
           Len(calls[c].url) - Len(DateSuffix("&", calls[c].args.date)))

Rendered(coord) == F64ToString(coord.lat) \o "," \o F64ToString(coord.lng)

\* C7: the area encoder is total over the three variants of Area: a point
\* gives exactly "lat=<lat>&lng=<lng>", a location id exactly
\* "location_id=<id>", a polygon a string that starts with "poly="; exactly
\* one of the three prefixes starts the fragment.
C7_AreaEncoderTotal ==
    \A c \in CallIds :
        /\ (Issued(c) /\ calls[c].op \in AreaOps) =>
              LET area == calls[c].args.area
                  q    == AreaFragment(c)
              IN  /\ StartsWith(calls[c].url, AreaUrlPrefix(c))
                  /\ area.variant = "Point" =>
                        q = "lat=" \o F64ToString(area.coord.lat)
                              \o "&lng=" \o F64ToString(area.coord.lng)
                  /\ area.variant = "LocationId" => q = "location_id=" \o U64ToString(area.id)
                  /\ area.variant = "Custom" => StartsWith(q, "poly=")
                  /\ Cardinality({p \in {"lat=", "location_id=", "poly="} : StartsWith(q, p)}) = 1
        /\ ~Issued(c) =>
              \A area \in Areas :
                  /\ ENABLED street_level_crimes(c, "met", area, None)
                  /\ ENABLED street_level_outcomes(c, area, None)
                  /\ ENABLED stops_street(c, area, None)

C7_Witness ==
    \E c \in CallIds :
        /\ Issued(c)
        /\ calls[c].op = "street_level_outcomes"
        /\ calls[c].args.area = AreaLocationId(1737432)
        /\ AreaFragment(c) = "location_id=1737432"

RECURSIVE Split(_, _)
\* the pieces of s between the occurrences of the character ch
Split(s, ch) ==
    LET at == {i \in 1..Len(s) : CharAt(s, i) = ch}
    IN  IF at = {} THEN <<s>>
        ELSE LET i == CHOOSE x \in at : \A y \in at : x <= y
             IN  <<SubSeq(s, 1, i - 1)>> \o Split(SubSeq(s, i + 1, Len(s)), ch)

\* C8: a polygon of n >= 1 vertices is encoded as "poly=" and the vertices,
\* each "<lat>,<lng>", in the order given, with n-1 ':' between them: none is
\* dropped, repeated, moved or added.
C8_PolygonOrderKept ==
    \A c \in CallIds :
        (/\ Issued(c) /\ calls[c].op \in AreaOps
         /\ calls[c].args.area.variant = "Custom"
         /\ Len(calls[c].args.area.coords) >= 1) =>
            LET coords == calls[c].args.area.coords
                q      == AreaFragment(c)
                parts  == Split(SubSeq(q, Len("poly=") + 1, Len(q)), ":")
            IN  /\ StartsWith(q, "poly=")
                /\ Len(parts) = Len(coords)
                /\ \A i \in 1..Len(coords) : parts[i] = Rendered(coords[i])
                /\ CountChar(q, ":") = Len(coords) - 1

C8_Witness ==
    \E c \in CallIds :
        /\ Issued(c)
        /\ calls[c].op = "street_level_crimes"
        /\ calls[c].args.area.variant = "Custom"
        /\ Len(calls[c].args.area.coords) = 2
        /\ AreaFragment(c) = "poly=52.13,0.478:52.629729,-1.131592"

\* C9: a polygon without vertices is encoded as "poly=" and the GET is
\* issued; a polygon of one vertex is "poly=<lat>,<lng>" with no ':'; an
\* operation returns no error of its own for the number of vertices.
C9_ShortPolygonsPass ==
    \A c \in CallIds :
        /\ (/\ Issued(c) /\ calls[c].op \in AreaOps
            /\ calls[c].args.area.variant = "Custom") =>
              LET coords == calls[c].args.area.coords
                  q      == AreaFragment(c)
              IN  /\ Len(coords) = 0 => q = "poly="
                  /\ Len(coords) = 1 => q = "poly=" \o Rendered(coords[1]) /\ CountChar(q, ":") = 0
                  /\ calls[c].requests = 1
                  /\ calls[c].method = "GET"
                  /\ (Done(c) /\ ~calls[c].response.some) => calls[c].result.v = ErrorHttp("Request")
        /\ ~Issued(c) =>
              \A coords \in Polygons :
                  /\ ENABLED street_level_crimes(c, "met", AreaCustom(coords), None)
                  /\ ENABLED street_level_outcomes(c, AreaCustom(coords), None)
                  /\ ENABLED stops_street(c, AreaCustom(coords), None)

C9_Witness ==
    \E c \in CallIds :
        /\ calls[c].pc = "send"
        /\ calls[c].op = "street_level_crimes"
        /\ calls[c].args.area = AreaCustom(<<>>)
        /\ calls[c].url = "https://data.police.uk/api/crimes-street/met?poly="

\* the caller's strings hold no ch
ArgsWithout(c, ch) ==
    /\ \A key \in DOMAIN calls[c].args \cap {"category", "force"} :
          ~Contains(calls[c].args[key], ch)
    /\ calls[c].args.date.some => ~Contains(calls[c].args.date.v, ch)

\* C10: without a date the URL has no date parameter; with a date the URL
\* ends with "date=<date>", after '?' in crime_categories and after '&' in
\* every other operation, following the area fragment; the URL then has one
\* '?' when the arguments have none.
C10_DateIsLastParameter ==
    \A c \in CallIds :
        (Issued(c) /\ calls[c].op \in DateOps) =>
            LET date == calls[c].args.date
                url  == calls[c].url
                sep  == IF calls[c].op = "crime_categories" THEN "?" ELSE "&"
            IN  /\ ~date.some => ~Contains(url, "date=")
                /\ date.some =>
                      /\ EndsWith(url, sep \o "date=" \o date.v)
                      /\ ArgsWithout(c, "?") => CountChar(url, "?") = 1
                      /\ ArgsWithout(c, "&") =>
                            Split(url, "&")[Len(Split(url, "&"))] \in
                                {"date=" \o date.v,
                                 client.base_url \o "/crime-categories?date=" \o date.v}
                      /\ calls[c].op \in AreaOps =>
                            url = AreaUrlPrefix(c) \o area_query(calls[c].args.area)
                                    \o "&date=" \o date.v

C10_Witness ==
    \E c \in CallIds :
        /\ Issued(c)
        /\ calls[c].op = "crime_categories"
        /\ calls[c].args.date = Some("2024-01")
        /\ calls[c].url = "https://data.police.uk/api/crime-categories?date=2024-01"

\* the one crime of the answer JArr(<<x>>), decoded
TheCrime(c) == calls[c].result.v.value[1]

\* C11: a Crime whose location and location_type are null decodes, with both
\* fields absent and the other fields as sent; without any one of category,
\* persistent_id, id, context and month the decoding fails.
C11_CrimeWithoutLocation ==
    \A c \in CallIds :
        calls[c].op \in CrimeOps =>
            /\ AnsweredWith(c, JArr(<<CrimeNoLocation>>)) =>
                  /\ IsOk(c)
                  /\ Len(calls[c].result.v.value) = 1
                  /\ TheCrime(c).location = None
                  /\ TheCrime(c).location_type = None
                  /\ TheCrime(c).category = CrimeNoLocation.o["category"].s
                  /\ TheCrime(c).persistent_id = CrimeNoLocation.o["persistent_id"].s
                  /\ TheCrime(c).id = CrimeNoLocation.o["id"].n
                  /\ TheCrime(c).context = CrimeNoLocation.o["context"].s
                  /\ TheCrime(c).month = CrimeNoLocation.o["month"].s
            /\ \A key \in {"category", "persistent_id", "id", "context", "month"} :
                  AnsweredWith(c, JArr(<<DelKey(CrimeNoLocation, key)>>)) => IsDecodeError(c)

\* /crimes-no-location answered with a crime that has no location and no id
C11_Witness ==
    \E c \in CallIds :
        /\ calls[c].op = "crimes_no_location"
        /\ AnsweredWith(c, JArr(<<DelKey(CrimeNoLocation, "id")>>))
        /\ "id" \notin DOMAIN calls[c].response.v.sent.j.a[1].o
        /\ calls[c].response.v.sent.j.a[1].o["location"] = JNull
        /\ IsDecodeError(c)

RECURSIVE ValueEdit(_, _, _, _)
\* the decoded value v of type ty with x in the field the path p leads to
ValueEdit(v, ty, p, x) ==
    CASE ty.k = "Option" -> Some(ValueEdit(v.v, ty.of, p, x))
      [] ty.k = "Vec" -> [v EXCEPT ![1] = ValueEdit(@, ty.of, Tail(p), x)]
      [] ty.k = "Struct" ->
            LET f == ty.fields[CHOOSE i \in 1..Len(ty.fields) : ty.fields[i].key = p[1]]
            IN  [v EXCEPT ![f.name] = IF Len(p) = 1 THEN x ELSE ValueEdit(@, f.ty, Tail(p), x)]

OptionalSitesOf == [op \in Operations |-> OptionalSites(ResponseType(op))]

\* the full document of an operation with the optional key at p null
NullAt ==
    [op \in Operations |->
        [p \in OptionalSitesOf[op] |-> Edit(SampleJson(ResponseType(op)), p, Some(JNull))]]

\* the full document of an operation without the optional key at p
MissingAt ==
    [op \in Operations |->
        [p \in OptionalSitesOf[op] |-> Edit(SampleJson(ResponseType(op)), p, None)]]

\* the value of the full document, with the field at p absent
AbsentAt ==
    [op \in Operations |->
        [p \in OptionalSitesOf[op] |->
            ValueEdit(Deserialize(ResponseType(op), SampleJson(ResponseType(op))).v,
                      ResponseType(op), p, None)]]

\* C12: for every field of type Option of every entity, a null and a missing
\* key both decode, to the same entity: the one the full document decodes to
\* with that field absent (None) and every other field as sent.
C12_NullAndMissingAreAbsent ==
    \A c \in CallIds :
        (Answered(c) /\ calls[c].response.v.status = 200 /\ calls[c].response.v.readable) =>
            \A p \in OptionalSitesOf[calls[c].op] :
                (\/ calls[c].response.v.sent = JsonText(NullAt[calls[c].op][p])
                 \/ calls[c].response.v.sent = JsonText(MissingAt[calls[c].op][p])) =>
                    calls[c].result = Some(Ok(AbsentAt[calls[c].op][p]))

\* a senior officer whose contact_details has no "twitter" key
C12_Witness ==
    \E c \in CallIds :
        /\ calls[c].op = "senior_officers"
        /\ AnsweredWith(c, MissingAt["senior_officers"][<<"#", "contact_details", "twitter">>])
        /\ "twitter" \notin DOMAIN calls[c].response.v.sent.j.a[1].o["contact_details"].o
        /\ IsOk(c)
        /\ calls[c].result.v.value[1].contact_details.twitter = None
        /\ calls[c].result.v.value[1].contact_details.email = Some("x")

RequiredSitesOf == [op \in Operations |-> RequiredSites(ResponseType(op))]

BrokenAtOf ==
    [op \in Operations |-> [p \in RequiredSitesOf[op] |-> BrokenAt(ResponseType(op), p)]]

\* the answer is the full document but for one required key, which is left
\* out, null, or of a wrong JSON type
RequiredKeyBroken(c) ==
    /\ Answered(c)
    /\ calls[c].response.v.status = 200
    /\ calls[c].response.v.readable
    /\ calls[c].response.v.sent.json
    /\ \E p \in RequiredSitesOf[calls[c].op] :
          calls[c].response.v.sent.j \in BrokenAtOf[calls[c].op][p]

\* C13: for every response type, a required key that is absent, null or of a
\* wrong JSON type makes the decoding of the whole response fail; no default
\* fills the field.
C13_RequiredKeysAreStrict ==
    \A c \in CallIds : RequiredKeyBroken(c) => IsDecodeError(c)

\* the same but for the two encodings serde's derived visitors also take: a
\* struct written as the array of its fields, and a variant written as an
\* object with that one key and a null value
RequiredKeysAreStrictForPlainValues ==
    \A c \in CallIds :
        (/\ RequiredKeyBroken(c)
         /\ \A p \in RequiredSitesOf[calls[c].op] :
               LET ty == FieldAt(ResponseType(calls[c].op), p).ty
               IN  /\ ty.k = "Struct" =>
                        calls[c].response.v.sent.j #
                            Edit(SampleJson(ResponseType(calls[c].op)), p, Some(ArrayForm(ty)))
                   /\ ty.k = "Enum" =>
                        calls[c].response.v.sent.j #
                            Edit(SampleJson(ResponseType(calls[c].op)), p,
                                 Some(JObj([key \in {ty.variants[1].rename} |-> JNull]))))
            => IsDecodeError(c)

\* the full document of each operation, and its value
FullDocument == [op \in Operations |-> SampleJson(ResponseType(op))]

FullValue == [op \in Operations |-> Deserialize(ResponseType(op), FullDocument[op]).v]

ExtendedDocumentsOf == [op \in Operations |-> ExtendedDocuments(op)]

\* C14: for every response type, a key no struct declares, added to the
\* document or to any object inside it, neither fails the decoding nor changes
\* the value.
C14_UnknownKeysIgnored ==
    \A c \in CallIds :
        (/\ Answered(c)
         /\ calls[c].response.v.status = 200
         /\ calls[c].response.v.readable
         /\ calls[c].response.v.sent.json
         /\ calls[c].response.v.sent.j \in ExtendedDocumentsOf[calls[c].op]) =>
            calls[c].result = Some(Ok(FullValue[calls[c].op]))

\* a neighbourhood whose centre has a key LatLng does not declare
C14_Witness ==
    \E c \in CallIds :
        /\ calls[c].op = "neighbourhood"
        /\ AnsweredWith(c, Edit(FullDocument["neighbourhood"], <<"centre", "extra">>,
                                Some(JObj([id |-> JNum(1)]))))
        /\ "extra" \in DOMAIN calls[c].response.v.sent.j.o["centre"].o
        /\ calls[c].result = Some(Ok(FullValue["neighbourhood"]))
        /\ DOMAIN calls[c].result.v.value.centre = {"latitude", "longitude"}

\* the outcome the answer of a call stands for, were nothing retried,
\* recovered or suppressed
OutcomeOf(c) ==
    IF ~calls[c].response.some THEN ErrorHttp("Request")
    ELSE handle_response(ResponseType(calls[c].op), calls[c].response.v).result

\* C15: a call issues exactly one request, a GET, and ends with exactly one
\* outcome, the value or the error of its one answer; once it has its outcome
\* nothing more is sent and the outcome stays.
C15_OneRequestOneOutcome ==
    /\ [](\A c \in CallIds :
            /\ calls[c].pc # "idle" => calls[c].requests = 1 /\ calls[c].method = "GET"
            /\ calls[c].pc = "idle" => calls[c].requests = 0
            /\ calls[c].result.some <=> Done(c)
            /\ Done(c) =>
                  /\ calls[c].result.v = OutcomeOf(c)
                  /\ calls[c].result.v.variant \in {"Ok", "Http", "Api"}
                  /\ calls[c].decodes <= 1)
    /\ [][\A c \in CallIds : Done(c) => calls'[c] = calls[c]]_vars

\* a call that was answered 429 and has ended with that error after one request
C15_Witness ==
    \E c \in CallIds :
        /\ Done(c)
        /\ calls[c].response.some
        /\ calls[c].response.v.status = 429
        /\ calls[c].requests = 1
        /\ calls[c].result.v.variant = "Api"
        /\ calls[c].result.v.status = 429

(***************************************************************************)
(* The endpoints: the URL each operation builds, as a template over its    *)
(* arguments.                                                              *)
(***************************************************************************)
Lit(s) == [part |-> "lit", s |-> s]

\* an argument written as it is (&str), by Display (u64, f64), by area_query
\* (Area), or as an optional date behind the separator sep
Str(name) == [part |-> "str", name |-> name]

U64(name) == [part |-> "u64", name |-> name]

Float(name) == [part |-> "f64", name |-> name]

AreaPart(name) == [part |-> "area", name |-> name]

DatePart(sep) == [part |-> "date", sep |-> sep]

PathTemplate(op) ==
    CASE op = "forces" -> <<Lit("/forces")>>
      [] op = "force" -> <<Lit("/forces/"), Str("id")>>
      [] op = "crime_categories" -> <<Lit("/crime-categories"), DatePart("?")>>
      [] op = "street_level_crimes" ->
            <<Lit("/crimes-street/"), Str("category"), Lit("?"), AreaPart("area"), DatePart("&")>>
      [] op = "street_level_outcomes" ->
            <<Lit("/outcomes-at-location?"), AreaPart("area"), DatePart("&")>>
      [] op = "crime_last_updated" -> <<Lit("/crime-last-updated")>>
      [] op = "senior_officers" -> <<Lit("/forces/"), Str("force_id"), Lit("/people")>>
      [] op = "crimes_at_location" ->
            <<Lit("/crimes-at-location?location_id="), U64("location_id"), DatePart("&")>>
      [] op = "crimes_no_location" ->
            <<Lit("/crimes-no-location?category="), Str("category"), Lit("&force="),
              Str("force"), DatePart("&")>>
      [] op = "outcomes_for_crime" -> <<Lit("/outcomes-for-crime/"), Str("persistent_id")>>
      [] op = "neighbourhoods" -> <<Lit("/"), Str("force_id"), Lit("/neighbourhoods")>>
      [] op = "neighbourhood" -> <<Lit("/"), Str("force_id"), Lit("/"), Str("neighbourhood_id")>>
      [] op = "neighbourhood_boundary" ->
            <<Lit("/"), Str("force_id"), Lit("/"), Str("neighbourhood_id"), Lit("/boundary")>>
      [] op = "neighbourhood_team" ->
            <<Lit("/"), Str("force_id"), Lit("/"), Str("neighbourhood_id"), Lit("/people")>>
      [] op = "neighbourhood_events" ->
            <<Lit("/"), Str("force_id"), Lit("/"), Str("neighbourhood_id"), Lit("/events")>>
      [] op = "neighbourhood_priorities" ->
            <<Lit("/"), Str("force_id"), Lit("/"), Str("neighbourhood_id"), Lit("/priorities")>>
      [] op = "locate_neighbourhood" ->
            <<Lit("/locate-neighbourhood?q="), Float("lat"), Lit(","), Float("lng")>>
      [] op = "stops_street" -> <<Lit("/stops-street?"), AreaPart("area"), DatePart("&")>>
      [] op = "stops_at_location" ->
            <<Lit("/stops-at-location?location_id="), U64("location_id"), DatePart("&")>>
      [] op = "stops_no_location" ->
            <<Lit("/stops-no-location?force="), Str("force"), DatePart("&")>>
      [] op = "stops_force" -> <<Lit("/stops-force?force="), Str("force"), DatePart("&")>>

RenderPart(part, args) ==
    CASE part.part = "lit" -> part.s
      [] part.part = "str" -> args[part.name]
      [] part.part = "u64" -> U64ToString(args[part.name])
      [] part.part = "f64" -> F64ToString(args[part.name])
      [] part.part = "area" -> area_query(args[part.name])
      [] part.part = "date" -> DateSuffix(part.sep, args.date)

\* the URL of the operation op called with args by a call of its own
UrlOf(op, args) ==
    LET t == PathTemplate(op)
    IN  BASE_URL \o Join([i \in 1..Len(t) |-> RenderPart(t[i], args)], "")

(***************************************************************************)
(* Two calls on one client (shared by reference, or a clone, which has the *)
(* same http handle and base_url): their steps interleave in any order.    *)
(***************************************************************************)
ConcurrentCalls == {1, 2}

ConcurrentTokens == {"met"}

ConcurrentAreas == {AreaCustom(<<Coordinate(F64(FALSE, 52, "13"), F64(FALSE, 0, "478"))>>)}

ConcurrentLocationIds == {1737432}

\* what the upstream answers to a call: the full document, or 429 without a
\* body
ConcurrentUpstream ==
    [op \in Operations |->
        {Response(200, JsonText(FullDocument[op]), TRUE),
         Response(429, RawText(""), TRUE)}]

InitConcurrent ==
    /\ client \in {new} \cup {from_http_client(http) : http \in HttpClients}
    /\ calls = [c \in ConcurrentCalls |-> Idle]

NextConcurrent ==
    \E c \in ConcurrentCalls :
        \/ forces(c)
        \/ \E id \in ConcurrentTokens : force(c, id)
        \/ \E date \in Dates : crime_categories(c, date)
        \/ \E category \in ConcurrentTokens, area \in ConcurrentAreas, date \in Dates :
              street_level_crimes(c, category, area, date)
        \/ \E area \in ConcurrentAreas, date \in Dates : street_level_outcomes(c, area, date)
        \/ crime_last_updated(c)
        \/ \E force_id \in ConcurrentTokens : senior_officers(c, force_id)
        \/ \E location_id \in ConcurrentLocationIds, date \in Dates :
              crimes_at_location(c, location_id, date)
        \/ \E category \in ConcurrentTokens, force_arg \in ConcurrentTokens, date \in Dates :
              crimes_no_location(c, category, force_arg, date)
        \/ \E persistent_id \in ConcurrentTokens : outcomes_for_crime(c, persistent_id)
        \/ \E force_id \in ConcurrentTokens : neighbourhoods(c, force_id)
        \/ \E force_id \in ConcurrentTokens, neighbourhood_id \in ConcurrentTokens :
              neighbourhood(c, force_id, neighbourhood_id)
        \/ \E force_id \in ConcurrentTokens, neighbourhood_id \in ConcurrentTokens :
              neighbourhood_boundary(c, force_id, neighbourhood_id)
        \/ \E force_id \in ConcurrentTokens, neighbourhood_id \in ConcurrentTokens :
              neighbourhood_team(c, force_id, neighbourhood_id)
        \/ \E force_id \in ConcurrentTokens, neighbourhood_id \in ConcurrentTokens :
              neighbourhood_events(c, force_id, neighbourhood_id)
        \/ \E force_id \in ConcurrentTokens, neighbourhood_id \in ConcurrentTokens :
              neighbourhood_priorities(c, force_id, neighbourhood_id)
        \/ \E p \in Coordinates : locate_neighbourhood(c, p.lat, p.lng)
        \/ \E area \in ConcurrentAreas, date \in Dates : stops_street(c, area, date)
        \/ \E location_id \in ConcurrentLocationIds, date \in Dates :
              stops_at_location(c, location_id, date)
        \/ \E force_arg \in ConcurrentTokens, date \in Dates : stops_no_location(c, force_arg, date)
        \/ \E force_arg \in ConcurrentTokens, date \in Dates : stops_force(c, force_arg, date)
        \/ SendFails(c)
        \/ SendResponds(c) /\ calls'[c].response.v \in ConcurrentUpstream[calls[c].op]
        \/ HandleResponse(c)

Concurrent == InitConcurrent /\ [][NextConcurrent]_vars

\* C16: under every interleaving of the steps of two calls on one client,
\* each call has the URL and the result it has when it runs alone with the
\* same arguments and the same answer; a step of one call leaves the other
\* call as it is, and no step changes the client's base URL or transport
\* handle.
C16_CallsDoNotInterfere ==
    /\ [](\A c \in DOMAIN calls :
            /\ calls[c].pc # "idle" =>
                  /\ calls[c].url = UrlOf(calls[c].op, calls[c].args)
                  /\ calls[c].requests = 1
            /\ calls[c].result.some <=> Done(c)
            /\ Done(c) => calls[c].result.v = OutcomeOf(c))
    /\ [][/\ client' = client
          /\ \A c \in DOMAIN calls :
                calls'[c] # calls[c] =>
                    \A d \in DOMAIN calls \ {c} : calls'[d] = calls[d]]_vars

\* two calls on the one client that ended differently: the first with the
\* error of its 429, the second with the value of its document
C16_Witness ==
    /\ DOMAIN calls = {1, 2}
    /\ calls[1].op = "forces" /\ calls[2].op = "force"
    /\ Done(1) /\ Done(2)
    /\ calls[1].result.v = ErrorApi(429, RawText(""))
    /\ calls[2].result.v = Ok(FullValue["force"])
    /\ calls[1].url # calls[2].url

\* C17: the same operation called twice with the same arguments (one call
\* after the other, or interleaved) sends the same URL twice, and when the
\* upstream answers both calls with the same status and body the two results
\* are equal: equal values, or errors of equal kind, status and body; and the
\* client is after the first call what it was before it.
C17_SameCallSameResult ==
    /\ [](\A c, d \in DOMAIN calls :
            (/\ calls[c].pc # "idle" /\ calls[d].pc # "idle"
             /\ calls[c].op = calls[d].op
             /\ calls[c].args = calls[d].args) =>
                /\ calls[c].url = calls[d].url
                /\ calls[c].method = calls[d].method
                /\ (Done(c) /\ Done(d) /\ calls[c].response = calls[d].response) =>
                      calls[c].result = calls[d].result)
    /\ [][client' = client]_vars

\* the first call is over, the second, the same call, gets the same answer
\* and ends with the same value
C17_Witness ==
    /\ DOMAIN calls = {1, 2}
    /\ Done(1) /\ Done(2)
    /\ calls[1].op = "stops_force" /\ calls[2].op = "stops_force"
    /\ calls[1].args = calls[2].args
    /\ calls[1].args.date = Some("2024-01")
    /\ calls[1].response = calls[2].response
    /\ calls[1].response.some /\ calls[1].response.v.status = 200
    /\ calls[1].url = calls[2].url
    /\ IsOk(1) /\ calls[1].result = calls[2].result

\* the call ended without an HTTP response: the transport failed
TransportFailed(c) == Done(c) /\ ~calls[c].response.some

\* C18: when the transport fails before there is a response, the call
\* returns the transport error, which carries no status; the decoder has not
\* run and the result is no API error.
C18_TransportErrorHasNoStatus ==
    \A c \in DOMAIN calls :
        TransportFailed(c) =>
            /\ calls[c].result = Some(ErrorHttp("Request"))
            /\ calls[c].result.v.variant # "Api"
            /\ "status" \notin DOMAIN calls[c].result.v
            /\ calls[c].decodes = 0
            /\ calls[c].requests = 1

\* /forces was requested and the transport failed
C18_Witness ==
    \E c \in DOMAIN calls :
        /\ calls[c].op = "forces"
        /\ TransportFailed(c)
        /\ calls[c].url = "https://data.police.uk/api/forces"
        /\ calls[c].result.v.variant = "Http"

\* every operation builds its URL by a template of its own and has a response
\* type
EndpointsAreDistinct ==
    /\ \A op1, op2 \in Operations : op1 # op2 => PathTemplate(op1) # PathTemplate(op2)
    /\ \A op \in Operations : ResponseType(op).k \in {"Vec", "Struct"}

NumberOfOperations == Cardinality(Operations)

\* the client has n operations: each can be called and nothing else can, and
\* a call has the URL of its operation's template
HasOperations(n) ==
    /\ NumberOfOperations = n
    /\ EndpointsAreDistinct
    /\ \A c \in DOMAIN calls :
          /\ calls[c].pc = "idle" =>
                \A op \in Operations : ENABLED (Next /\ calls'[c].op = op)
          /\ calls[c].pc # "idle" =>
                /\ calls[c].op \in Operations
                /\ calls[c].url = UrlOf(calls[c].op, calls[c].args)

\* C19 as stated: the client has exactly 25 operations.
C19_TwentyFiveOperations == HasOperations(25)

\* C19 (amended): the client has exactly 21 operations, one public entry
\* point each, each with its own path template and its response type.
C19_TwentyOneOperations == HasOperations(21)

\* the last entry point of the client, called and answered
C19_Witness ==
    \E c \in DOMAIN calls :
        /\ calls[c].op = "stops_force"
        /\ calls[c].url = "https://data.police.uk/api/stops-force?force=met&date=2024-01"
        /\ Done(c)
        /\ calls[c].result = Some(Ok(FullValue["stops_force"]))

\* the one record of a stops answer, sent with the value x under "type"
KindSent(x) == JArr(<<SetKey(SampleJson(StopAndSearch), "type", x)>>)

KindSentOf == [s \in KindPhrases \cup OtherKindStrings |-> KindSent(JStr(s))]

KindOf(s) ==
    CASE s = "Person search" -> "Person"
      [] s = "Vehicle search" -> "Vehicle"
      [] s = "Person and Vehicle search" -> "PersonAndVehicle"

\* C20: StopAndSearch.kind: "Person search" decodes to Person, "Vehicle
\* search" to Vehicle, "Person and Vehicle search" to PersonAndVehicle; null
\* and a missing key decode to absent; every other string fails the decoding
\* of the answer.
C20_KindFromThreePhrases ==
    \A c \in DOMAIN calls :
        calls[c].op \in StopsOps =>
            /\ \A s \in KindPhrases :
                  AnsweredWith(c, KindSentOf[s]) =>
                      /\ IsOk(c)
                      /\ calls[c].result.v.value[1].kind = Some(KindOf(s))
            /\ \A s \in OtherKindStrings :
                  AnsweredWith(c, KindSentOf[s]) => IsDecodeError(c)
            /\ (\/ AnsweredWith(c, KindSent(JNull))
                \/ AnsweredWith(c, JArr(<<DelKey(SampleJson(StopAndSearch), "type")>>))) =>
                      /\ IsOk(c)
                      /\ calls[c].result.v.value[1].kind = None

\* a stop whose type is the name of the variant, not its phrase
C20_Witness ==
    \E c \in DOMAIN calls :
        /\ calls[c].op = "stops_street"
        /\ AnsweredWith(c, KindSent(JStr("PersonAndVehicle")))
        /\ IsDecodeError(c)

\* C21: every request is a GET whose URL starts with the client's base URL;
\* new and from_http_client give the same fixed base URL, and no step of an
\* operation changes the base URL or the transport handle.
C21_GetAgainstFixedBase ==
    /\ [](/\ client.base_url = BASE_URL
          /\ new.base_url = BASE_URL
          /\ \A http \in HttpClients :
                /\ from_http_client(http).base_url = new.base_url
                /\ from_http_client(http).http = http
          /\ \A c \in DOMAIN calls :
                Issued(c) =>
                    /\ calls[c].method = "GET"
                    /\ StartsWith(calls[c].url, client.base_url \o "/"))
    /\ [][client' = client]_vars

\* a client made by from_http_client with a handle of the caller's has sent a
\* request
C21_Witness ==
    \E c \in DOMAIN calls :
        /\ client = from_http_client("custom")
        /\ client.http # new.http
        /\ Done(c)
        /\ calls[c].op = "neighbourhood_events"
        /\ calls[c].method = "GET"
        /\ calls[c].url = "https://data.police.uk/api/met/NC04/events"

\* the operations that take a string for the path or the query
TokenOps ==
    {"force", "street_level_crimes", "senior_officers", "crimes_no_location",
     "outcomes_for_crime", "neighbourhoods", "neighbourhood", "neighbourhood_boundary",
     "neighbourhood_team", "neighbourhood_events", "neighbourhood_priorities",
     "stops_no_location", "stops_force"} \cup DateOps

\* C22: the strings a caller gives (force id, neighbourhood id, category,
\* persistent id, date) are in the URL as given: the URL is the operation's
\* template with every placeholder replaced by the argument, nothing escaped,
\* trimmed, changed in case or checked, and every such call issues its
\* request, the empty string included.
C22_TokensVerbatim ==
    \A c \in DOMAIN calls :
        /\ (Issued(c) /\ calls[c].op \in TokenOps) =>
              /\ calls[c].url = UrlOf(calls[c].op, calls[c].args)
              /\ calls[c].requests = 1
              /\ calls[c].pc = "send" => calls[c].result = None
        /\ calls[c].pc = "idle" =>
              /\ \A t \in Tokens :
                    /\ ENABLED force(c, t)
                    /\ ENABLED senior_officers(c, t)
                    /\ ENABLED outcomes_for_crime(c, t)
                    /\ ENABLED neighbourhoods(c, t)
              /\ \A t \in Tokens, u \in Tokens :
                    /\ ENABLED neighbourhood(c, t, u)
                    /\ ENABLED neighbourhood_boundary(c, t, u)
                    /\ ENABLED neighbourhood_team(c, t, u)
                    /\ ENABLED neighbourhood_events(c, t, u)
                    /\ ENABLED neighbourhood_priorities(c, t, u)
              /\ \A t \in Tokens, date \in Dates :
                    /\ ENABLED stops_no_location(c, t, date)
                    /\ ENABLED stops_force(c, t, date)
                    /\ ENABLED crime_categories(c, date)
                    /\ \A u \in Tokens : ENABLED crimes_no_location(c, t, u, date)
                    /\ \A area \in Areas : ENABLED street_level_crimes(c, t, area, date)

\* a force id with spaces, a capital and a '?' and an empty neighbourhood id
\* have gone into the URL as they are, and the request was answered
C22_Witness ==
    \E c \in DOMAIN calls :
        /\ Done(c)
        /\ calls[c].op = "neighbourhood_priorities"
        /\ calls[c].args.force_id = " A?b "
        /\ calls[c].args.neighbourhood_id = ""
        /\ calls[c].url = "https://data.police.uk/api/ A?b //priorities"
        /\ calls[c].response.some

\* a call of street_level_crimes or stops_street with Area::LocationId
ByLocationId(c) ==
    /\ calls[c].op \in {"street_level_crimes", "stops_street"}
    /\ calls[c].pc # "idle"
    /\ calls[c].args.area.variant = "LocationId"

\* C23: street_level_crimes and stops_street called with Area::LocationId
\* do not fail before the request: a GET goes to the operation's path with
\* "location_id=<id>", the fragment street_level_outcomes sends for the same
\* area, and then the date.
C23_LocationIdNotValidated ==
    \A c \in DOMAIN calls :
        /\ ByLocationId(c) =>
              LET args == calls[c].args
                  q    == "location_id=" \o U64ToString(args.area.id)
                  path == IF calls[c].op = "stops_street" THEN "/stops-street?"
                          ELSE "/crimes-street/" \o args.category \o "?"
              IN  /\ calls[c].method = "GET"
                  /\ calls[c].requests = 1
                  /\ calls[c].url = client.base_url \o path \o q \o DateSuffix("&", args.date)
                  /\ UrlOf("street_level_outcomes", [area |-> args.area, date |-> args.date])
                        = BASE_URL \o "/outcomes-at-location?" \o q \o DateSuffix("&", args.date)
                  /\ calls[c].pc = "send" => calls[c].result = None
                  /\ calls[c].result.some =>
                        \/ calls[c].response.some
                        \/ calls[c].result.v = ErrorHttp("Request")
        /\ calls[c].pc = "idle" =>
              \A id \in LocationIds, date \in Dates :
                  /\ \A category \in Tokens :
                        ENABLED street_level_crimes(c, category, AreaLocationId(id), date)
                  /\ ENABLED stops_street(c, AreaLocationId(id), date)

\* street_level_crimes with a location id and a date got a list of crimes
C23_Witness ==
    \E c \in DOMAIN calls :
        /\ Done(c)
        /\ calls[c].op = "street_level_crimes"
        /\ calls[c].args.area = AreaLocationId(1737432)
        /\ calls[c].url
             = "https://data.police.uk/api/crimes-street/met?location_id=1737432&date=2024-01"
        /\ IsOk(c)

Tags == {OutcomeCategory.variants[i].tag : i \in 1..Len(OutcomeCategory.variants)}

\* the tags in the value a call returned: Crime.outcome_status.category and
\* Outcome.category.code
DecodedTags(c) ==
    IF ~(Done(c) /\ IsOk(c)) THEN {}
    ELSE LET value == calls[c].result.v.value
         IN  CASE calls[c].op \in CrimeOps ->
                    {value[i].outcome_status.v.category :
                        i \in {k \in 1..Len(value) : value[k].outcome_status.some}}
               [] calls[c].op = "street_level_outcomes" ->
                    {value[i].category.code : i \in 1..Len(value)}
               [] OTHER -> {}

\* encoding the tag gives its slug, and the slug decodes to the tag
RoundTrip(t) ==
    LET j == Serialize(OutcomeCategory, t)
    IN  /\ j.t = "str"
        /\ j.s \in Slugs
        /\ j.s \notin Phrases
        /\ \E i \in 1..Len(OutcomeCategory.variants) :
              /\ OutcomeCategory.variants[i].tag = t
              /\ OutcomeCategory.variants[i].rename = j.s
        /\ Deserialize(OutcomeCategory, j) = DeOk(t)

\* C24: serializing an OutcomeCategory tag gives its slug, never its phrase,
\* and decoding that slug gives the tag back, for the tags a call returned
\* and for all tags.
RoundTripOf == [t \in Tags |-> RoundTrip(t)]

C24_SlugRoundTrip ==
    \A c \in DOMAIN calls :
        /\ \A t \in DecodedTags(c) : t \in Tags /\ RoundTripOf[t]
        /\ Done(c) => \A t \in Tags : RoundTripOf[t]

\* an outcome sent with the phrase "Local resolution" was decoded, and the
\* outcome encodes with the slug "local-resolution"
C24_Witness ==
    \E c \in DOMAIN calls :
        /\ calls[c].op = "street_level_outcomes"
        /\ AnsweredWith(c, OutcomesSent("Local resolution"))
        /\ DecodedTags(c) = {"LocalResolution"}
        /\ Serialize(Outcome, calls[c].result.v.value[1]).o["category"]
             = OutcomeDetailJson("local-resolution")
        /\ Cardinality(Tags) = 28

\* the operations that return a Vec
ListOps == {op \in Operations : ResponseType(op).k = "Vec"}

\* the call got a 2xx answer whose body is a JSON array
AnsweredWithArray(c) ==
    /\ Answered(c)
    /\ calls[c].op \in ListOps
    /\ ~NonSuccess(calls[c].response.v.status)
    /\ calls[c].response.v.readable
    /\ calls[c].response.v.sent.json
    /\ calls[c].response.v.sent.j.t = "arr"

\* the decode of the i-th element of the array the call was answered with
ElementOf(c, i) ==
    Deserialize(ResponseType(calls[c].op).of, calls[c].response.v.sent.j.a[i])

\* C25: when one element of the array does not decode (a required key left
\* out, a wrong type, an unknown category, a malformed outcome), the operation
\* returns a decode error: no list without the element, cut at the element or
\* with a default in its place.
C25_BadElementFailsList ==
    \A c \in DOMAIN calls :
        AnsweredWithArray(c) =>
            LET a == calls[c].response.v.sent.j.a
            IN  (\E i \in 1..Len(a) : ~ElementOf(c, i).ok) =>
                    /\ IsDecodeError(c)
                    /\ ~IsOk(c)
                    /\ calls[c].decodes = 1

\* a list of crimes whose second element has an unknown category, after a
\* full first element, gave a decode error
C25_Witness ==
    \E c \in DOMAIN calls :
        /\ calls[c].op = "crimes_at_location"
        /\ AnsweredWith(c, JArr(<<SampleJson(Crime),
                                  SetKey(SampleJson(Crime), "outcome_status",
                                         OutcomeStatusJson("made-up-category"))>>))
        /\ ElementOf(c, 1).ok
        /\ ~ElementOf(c, 2).ok
        /\ IsDecodeError(c)

\* C26: a JSON array decodes to a sequence of the same length whose i-th
\* element is the decode of the i-th element of the array, for every
\* operation that returns a list and for the outcomes of CrimeOutcomes:
\* nothing is sorted, left out or merged.
C26_ArrayOrderAndLengthKept ==
    \A c \in DOMAIN calls :
        /\ AnsweredWithArray(c) =>
              LET a == calls[c].response.v.sent.j.a
              IN  (\A i \in 1..Len(a) : ElementOf(c, i).ok) =>
                      /\ IsOk(c)
                      /\ Len(calls[c].result.v.value) = Len(a)
                      /\ \A i \in 1..Len(a) :
                            calls[c].result.v.value[i] = ElementOf(c, i).v
        /\ (calls[c].op = "outcomes_for_crime" /\ Answered(c) /\ IsOk(c)) =>
              LET j == calls[c].response.v.sent.j
              IN  (j.t = "obj" /\ "outcomes" \in DOMAIN j.o /\ j.o["outcomes"].t = "arr") =>
                      LET a == j.o["outcomes"].a
                          outcomes == calls[c].result.v.value.outcomes
                      IN  /\ Len(outcomes) = Len(a)
                          /\ \A i \in 1..Len(a) :
                                outcomes[i] = Deserialize(CrimeOutcome, a[i]).v

\* two forces that differ were returned in the order they were sent
C26_Witness ==
    \E c \in DOMAIN calls :
        /\ calls[c].op = "forces"
        /\ AnsweredWith(c, JArr(<<OtherElement(Force), SampleJson(Force)>>))
        /\ IsOk(c)
        /\ Len(calls[c].result.v.value) = 2
        /\ calls[c].result.v.value[1].id = "y"
        /\ calls[c].result.v.value[2].id = "x"

\* C27: the success test is 200 <= status <= 299. With a status in that
\* range (201 and 204 too) the body goes to the decoder, so an empty body or
\* one that is no JSON gives a decode error, never a value; with any status
\* outside it (199, 300, 304, 4xx, 5xx) the result is an API error and the
\* body is not decoded.
C27_SuccessIsExactly2xx ==
    \A c \in DOMAIN calls :
        Answered(c) =>
            LET response == calls[c].response.v
                status   == response.status
            IN  /\ (200 <= status /\ status <= 299) =>
                      /\ calls[c].result.v.variant # "Api"
                      /\ response.readable => calls[c].decodes = 1
                      /\ ~response.readable => ~IsOk(c)
                      /\ (response.readable /\ ~response.sent.json) =>
                            IsDecodeError(c) /\ ~IsOk(c)
                      /\ IsOk(c) =>
                            /\ response.sent.json
                            /\ Deserialize(ResponseType(calls[c].op), response.sent.j)
                                 = DeOk(calls[c].result.v.value)
                /\ (status < 200 \/ status > 299) =>
                      /\ calls[c].result.v.variant = "Api"
                      /\ calls[c].result.v.status = status
                      /\ calls[c].decodes = 0

\* a 204 with an empty body gave a decode error
C27_Witness ==
    \E c \in DOMAIN calls :
        /\ Answered(c)
        /\ calls[c].op = "neighbourhood_boundary"
        /\ calls[c].response.v = Response(204, RawText(""), TRUE)
        /\ IsDecodeError(c)
        /\ calls[c].decodes = 1

\* the call was answered with a status that is not 2xx and a body that
\* cannot be read
UnreadableNonSuccess(c) ==
    /\ Answered(c)
    /\ NonSuccess(calls[c].response.v.status)
    /\ ~calls[c].response.v.readable

\* C28: a status that is not 2xx with a body that cannot be read as text
\* still gives an API error with that status, its body the empty string; the
\* failed read gives no transport error and does not hide the status.
C28_UnreadableBodyKeepsStatus ==
    \A c \in DOMAIN calls :
        UnreadableNonSuccess(c) =>
            /\ calls[c].result = Some(ErrorApi(calls[c].response.v.status, RawText("")))
            /\ calls[c].result.v.variant # "Http"
            /\ calls[c].result.v.body.s = ""
            /\ calls[c].result.v.status \in Statuses \ {200, 201, 204, 299}

\* a 500 whose body broke off while it was read
C28_Witness ==
    \E c \in DOMAIN calls :
        /\ UnreadableNonSuccess(c)
        /\ calls[c].op = "senior_officers"
        /\ calls[c].response.v = Response(500, RawText("Not Found"), FALSE)
        /\ calls[c].result = Some(ErrorApi(500, RawText("")))

\* the variants of OutcomeCategory that answer to the string s
Owners(s) ==
    {i \in 1..Len(OutcomeCategory.variants) :
        s = OutcomeCategory.variants[i].rename \/ s \in OutcomeCategory.variants[i].alias}

\* the variants declared in the opposite order
DeclaredBackwards ==
    [i \in 1..Len(OutcomeCategory.variants) |->
        OutcomeCategory.variants[Len(OutcomeCategory.variants) + 1 - i]]

\* the slugs differ pairwise, the phrases differ pairwise, no slug is a
\* phrase, and every spelling names one variant, whatever the order of the
\* declarations
AliasTableIsFunction ==
    /\ Cardinality(Slugs) = Len(OutcomeCategory.variants)
    /\ Cardinality(Phrases) = Len(OutcomeCategory.variants)
    /\ \A i \in 1..Len(OutcomeCategory.variants) :
          Cardinality(OutcomeCategory.variants[i].alias) = 1
    /\ Slugs \cap Phrases = {}
    /\ \A x \in Slugs \cup Phrases :
          /\ Cardinality(Owners(x)) = 1
          /\ VariantOf(DeclaredBackwards, x) = VariantOf(OutcomeCategory.variants, x)
          /\ VariantOf(OutcomeCategory.variants, x).ok

\* the tag of the one variant that answers to s
OwnerOf == [x \in Slugs \cup Phrases |->
              OutcomeCategory.variants[CHOOSE i \in Owners(x) : TRUE].tag]

\* C29: across the tags of OutcomeCategory the slugs are pairwise distinct,
\* the phrases are pairwise distinct and no slug is a phrase, so a string
\* that is accepted decodes to exactly one tag, in any declaration order.
C29_SpellingsNameOneTag ==
    \A c \in DOMAIN calls :
        Done(c) =>
            /\ AliasTableIsFunction
            /\ (calls[c].op = "street_level_outcomes" /\ AnsweredWithArray(c) /\ IsOk(c)) =>
                  LET a == calls[c].response.v.sent.j.a
                  IN  \A i \in 1..Len(a) :
                        (/\ a[i].t = "obj"
                         /\ a[i].o["category"].t = "obj"
                         /\ a[i].o["category"].o["code"].t = "str") =>
                            LET x == a[i].o["category"].o["code"].s
                            IN  /\ x \in Slugs \cup Phrases
                                /\ calls[c].result.v.value[i].category.code = OwnerOf[x]

\* an outcome sent with the last phrase of the table decoded to the last tag
C29_Witness ==
    \E c \in DOMAIN calls :
        /\ calls[c].op = "street_level_outcomes"
        /\ AnsweredWith(c, OutcomesSent("Status update unavailable"))
        /\ IsOk(c)
        /\ calls[c].result.v.value[1].category.code = "StatusUpdateUnavailable"
        /\ OwnerOf["Status update unavailable"] = "StatusUpdateUnavailable"
        /\ Cardinality(Slugs \cup Phrases) = 56

(***************************************************************************)
(* Two calls whose path arguments are words the paths of the API are made  *)
(* of: which operations send the same URL.                                 *)
(***************************************************************************)
RoutingCalls == {1, 2}

\* a force id, and the path words "forces", "neighbourhoods" and
\* "outcomes-for-crime" given as ids
RoutingTokens == {"met", "forces", "neighbourhoods", "outcomes-for-crime"}

RoutingUpstream ==
    [op \in Operations |-> {Response(404, RawText("Not Found"), TRUE)}]

InitRouting ==
    /\ client = new
    /\ calls = [c \in RoutingCalls |-> Idle]

NextRouting ==
    \E c \in RoutingCalls :
        \/ forces(c)
        \/ \E id \in RoutingTokens : force(c, id)
        \/ crime_categories(c, None)
        \/ \E category \in RoutingTokens, area \in ConcurrentAreas :
              street_level_crimes(c, category, area, None)
        \/ \E area \in ConcurrentAreas : street_level_outcomes(c, area, None)
        \/ crime_last_updated(c)
        \/ \E force_id \in RoutingTokens : senior_officers(c, force_id)
        \/ \E location_id \in ConcurrentLocationIds : crimes_at_location(c, location_id, None)
        \/ \E category \in ConcurrentTokens, force_arg \in ConcurrentTokens :
              crimes_no_location(c, category, force_arg, None)
        \/ \E persistent_id \in RoutingTokens : outcomes_for_crime(c, persistent_id)
        \/ \E force_id \in RoutingTokens : neighbourhoods(c, force_id)
        \/ \E force_id \in RoutingTokens, neighbourhood_id \in RoutingTokens :
              neighbourhood(c, force_id, neighbourhood_id)
        \/ \E force_id \in RoutingTokens, neighbourhood_id \in RoutingTokens :
              neighbourhood_boundary(c, force_id, neighbourhood_id)
        \/ \E force_id \in RoutingTokens, neighbourhood_id \in RoutingTokens :
              neighbourhood_team(c, force_id, neighbourhood_id)
        \/ \E force_id \in RoutingTokens, neighbourhood_id \in RoutingTokens :
              neighbourhood_events(c, force_id, neighbourhood_id)
        \/ \E force_id \in RoutingTokens, neighbourhood_id \in RoutingTokens :
              neighbourhood_priorities(c, force_id, neighbourhood_id)
        \/ \E p \in Coordinates : locate_neighbourhood(c, p.lat, p.lng)
        \/ \E area \in ConcurrentAreas : stops_street(c, area, None)
        \/ \E location_id \in ConcurrentLocationIds : stops_at_location(c, location_id, None)
        \/ \E force_arg \in ConcurrentTokens : stops_no_location(c, force_arg, None)
        \/ \E force_arg \in ConcurrentTokens : stops_force(c, force_arg, None)
        \/ SendFails(c)
        \/ SendResponds(c) /\ calls'[c].response.v \in RoutingUpstream[calls[c].op]
        \/ HandleResponse(c)

Routing == InitRouting /\ [][NextRouting]_vars

\* the arguments that go into the path of the URL
PathArgs(c) ==
    {calls[c].args[key] :
        key \in DOMAIN calls[c].args
                 \cap {"id", "force_id", "neighbourhood_id", "persistent_id"}}
        \cup (IF calls[c].op = "street_level_crimes" THEN {calls[c].args.category} ELSE {})

\* every path argument is a non-empty string without '/', '?', '#' and '&'
PlainPathArgs(c) ==
    \A x \in PathArgs(c) :
        x # "" /\ \A ch \in {"/", "?", "#", "&"} : ~Contains(x, ch)

NeighbourhoodOps ==
    {"neighbourhoods", "neighbourhood", "neighbourhood_boundary", "neighbourhood_team",
     "neighbourhood_events", "neighbourhood_priorities"}

\* no force id of a neighbourhood operation is "forces" or
\* "outcomes-for-crime", and no neighbourhood id is "neighbourhoods"
NoPathWordAsId(c) ==
    calls[c].op \in NeighbourhoodOps =>
        /\ calls[c].args.force_id \notin {"forces", "outcomes-for-crime"}
        /\ "neighbourhood_id" \in DOMAIN calls[c].args =>
              calls[c].args.neighbourhood_id # "neighbourhoods"

\* two calls of different operations, both issued
DifferentOperations(c, d) ==
    /\ Issued(c)
    /\ Issued(d)
    /\ calls[c].op # calls[d].op

\* C30 as stated: with path arguments that are non-empty and have no '/',
\* '?', '#' or '&', two calls of different operations never have the same
\* URL.
C30_UrlsNeverCollide ==
    \A c, d \in DOMAIN calls :
        (DifferentOperations(c, d) /\ PlainPathArgs(c) /\ PlainPathArgs(d)) =>
            calls[c].url # calls[d].url

\* C30 (amended): with such path arguments, two calls of different
\* operations have different URLs when no neighbourhood operation is given
\* "forces" or "outcomes-for-crime" as its force id or "neighbourhoods" as its
\* neighbourhood id.
C30_UrlsDifferUnlessPathWord ==
    \A c, d \in DOMAIN calls :
        (/\ DifferentOperations(c, d)
         /\ PlainPathArgs(c) /\ PlainPathArgs(d)
         /\ NoPathWordAsId(c) /\ NoPathWordAsId(d)) =>
            calls[c].url # calls[d].url

\* neighbourhood("met", "forces") and force("met") were both answered; their
\* URLs differ
C30_Witness ==
    /\ DOMAIN calls = {1, 2}
    /\ Done(1) /\ Done(2)
    /\ calls[1].op = "neighbourhood"
    /\ calls[1].args = [force_id |-> "met", neighbourhood_id |-> "forces"]
    /\ calls[2].op = "force"
    /\ calls[2].args = [id |-> "met"]
    /\ PlainPathArgs(1) /\ NoPathWordAsId(1)
    /\ calls[1].url = "https://data.police.uk/api/met/forces"
    /\ calls[2].url = "https://data.police.uk/api/forces/met"

=============================================================================
